---------------------------- MODULE Spec2Model ----------------------------
(***************************************************************************)
(* A model of the resolver's DNS result cache, crates/resolver/src/        *)
(* dns_lru.rs: the LruValue envelope, the TTL arithmetic of DnsLru and the *)
(* LruCache store behind its mutex.                                        *)
(*                                                                         *)
(* Time.  Instant and Duration have sub-second resolution; the model       *)
(* counts ticks, TicksPerSec of them to a second, so that as_secs()        *)
(* really truncates.  A u32 is modelled at the reduced width U32Modulus    *)
(* (TLC's integers are 32-bit signed, 2^32 is not representable); every    *)
(* program constant (MAX_TTL) lies below it.                               *)
(*                                                                         *)
(* Option<T> is a sequence of length at most one: None is <<>>, Some(x)    *)
(* is <<x>>.                                                               *)
(***************************************************************************)
EXTENDS Integers, Sequences, FiniteSets, TLC

VARIABLES
    cache,      \* LruCache<Query, LruValue>: a sequence, least recently used first
    cfg,        \* the DnsLru's capacity, its four TTL bounds and the build's dnssec feature
    last,       \* the latest call: its arguments and what it returned
    used,       \* history: the queries ever written as a key
    mutex,      \* parking_lot::Mutex around the LruCache: the handle that holds it, if any
    procs       \* per handle (clone) of the DnsLru: the call it is in and how far it got

vars == <<cache, cfg, last, used, mutex, procs>>

---------------------------------------------------------------------------
(* Bounds of the model *)

\* the instants a caller may pass as `now`: 0..MaxNow ticks
MaxNow == 3
\* the most records one insert call carries
MaxRecs == 2
\* ticks per second: the sub-second resolution of Instant and Duration
TicksPerSec == 2

---------------------------------------------------------------------------
(* Durations and integers *)

MAX_TTL == 86400

\* the modulus of `as u32` and the range of u32::try_from, at reduced width
U32Modulus == 2 ^ 20

\* Duration::from_secs
from_secs(s) == s * TicksPerSec

\* mutant: a started second counts as a whole one
as_secs_RoundedUp(d) == (d + TicksPerSec - 1) \div TicksPerSec

\* Duration::as_secs: whole seconds, truncated
as_secs(d) == d \div TicksPerSec

\* `x as u32`
as_u32(x) == x % U32Modulus

\* u32::try_from(x).unwrap_or(dflt)
try_from_u32_or(x, dflt) == IF x < U32Modulus THEN x ELSE dflt

\* Ord::min / Ord::max on Duration
DurMin(a, b) == IF a <= b THEN a ELSE b

DurMax(a, b) == IF a >= b THEN a ELSE b

\* Ord::clamp asserts min <= max and panics otherwise
ClampPanics(lo, hi) == lo > hi

\* Ord::clamp, for min <= max
Clamp(d, lo, hi) == IF d < lo THEN lo ELSE IF d > hi THEN hi ELSE d

None == <<>>

Some(x) == <<x>>

unwrap_or(opt, dflt) == IF opt = None THEN dflt ELSE opt[1]

---------------------------------------------------------------------------
(* Queries, records, lookups, errors *)

\* Query::query(name, rtype) with set_query_class(class)
Query(name, rtype, class) ==
    [name |-> name, query_type |-> rtype, query_class |-> class]

NoQuery == Query("", "", "")

Record(name, rtype, class, ttl, tag, v) ==
    [name |-> name, ttl |-> ttl, record_type |-> rtype, dns_class |-> class,
     data |-> [tag |-> tag, v |-> v]]

\* Record::set_ttl
set_ttl(record, ttl) == [record EXCEPT !.ttl = ttl]

\* Lookup::new_with_deadline
new_with_deadline(query, records, valid_until) ==
    [query |-> query, records |-> records, valid_until |-> valid_until]

NoLookup == new_with_deadline(NoQuery, <<>>, 0)

\* ProtoError: NoRecordsFound { negative_ttl, .. } or any other kind
ProtoError(kind, negative_ttl) == [kind |-> kind, negative_ttl |-> negative_ttl]

NoError == ProtoError("", None)

\* LruValue { lookup: Result<Lookup, ProtoError>, valid_until }
LruValueOk(lookup, valid_until) ==
    [valid_until |-> valid_until, lookup |-> lookup, result |-> "Ok", error |-> NoError]

LruValueErr(error, valid_until) ==
    [valid_until |-> valid_until, lookup |-> NoLookup, result |-> "Err", error |-> error]

---------------------------------------------------------------------------
(* LruValue *)

\* mutant: the deadline itself no longer counts as current
is_current_Exclusive(value, now) == now < value.valid_until

is_current(value, now) == now <= value.valid_until

\* Instant::saturating_duration_since
ttl(value, now) ==
    IF value.valid_until >= now THEN value.valid_until - now ELSE 0

\* Duration -> the u32 written into each record
RecordTtlOf(value, now) == as_u32(as_secs(ttl(value, now)))

\* mutant: the Lookup goes out with the deadline it was stored with
with_updated_ttl_OwnDeadline(value, now) ==
    IF value.result = "Ok"
    THEN LruValueOk(
            new_with_deadline(
                value.lookup.query,
                [i \in 1..Len(value.lookup.records) |->
                    set_ttl(value.lookup.records[i], RecordTtlOf(value, now))],
                value.lookup.valid_until),
            value.valid_until)
    ELSE LruValueErr(value.error, value.valid_until)

\* mutant: the records go out with the TTLs they were stored with
with_updated_ttl_Stale(value, now) == value

with_updated_ttl(value, now) ==
    IF value.result = "Ok"
    THEN LruValueOk(
            new_with_deadline(
                value.lookup.query,
                [i \in 1..Len(value.lookup.records) |->
                    set_ttl(value.lookup.records[i], RecordTtlOf(value, now))],
                value.valid_until),
            value.valid_until)
    ELSE LruValueErr(value.error, value.valid_until)

---------------------------------------------------------------------------
(* LruCache<Query, LruValue>: entries [key, value], least recently used first *)

Entry(k, v) == [value |-> v, key |-> k]

Keys(c) == {c[i].key : i \in 1..Len(c)}

contains_key(c, k) == k \in Keys(c)

IndexOf(c, k) == CHOOSE i \in 1..Len(c) : c[i].key = k

ValueOf(c, k) == c[IndexOf(c, k)].value

Without(c, k) == SelectSeq(c, LAMBDA e : e.key # k)

\* mutant: a key the store holds keeps its value (entry().or_insert())
lru_insert_KeepOld(c, capacity, k, v) ==
    IF contains_key(c, k) THEN Append(Without(c, k), c[IndexOf(c, k)])
    ELSE LET put == Append(c, Entry(k, v))
         IN  IF Len(put) > capacity THEN Tail(put) ELSE put

\* mutant: the entry written is the only one the store keeps
lru_insert_Single(c, capacity, k, v) == <<Entry(k, v)>>

\* mutant: nothing is removed to make room
lru_insert_Grow(c, capacity, k, v) == Append(Without(c, k), Entry(k, v))

\* LruCache::insert: the key becomes the most recently used; past the capacity
\* the least recently used entry is removed
lru_insert(c, capacity, k, v) ==
    LET put == Append(Without(c, k), Entry(k, v))
    IN  IF Len(put) > capacity THEN Tail(put) ELSE put

\* mutant: a miss makes room by dropping the least recently used entry
lru_get_mut_Pop(c, k) ==
    IF contains_key(c, k) THEN Append(Without(c, k), c[IndexOf(c, k)])
    ELSE IF c = <<>> THEN c ELSE Tail(c)

\* mutant: a hit leaves the recency order as it is
lru_get_mut_NoRefresh(c, k) == c

\* LruCache::get_mut refreshes the key's recency
lru_get_mut(c, k) ==
    IF contains_key(c, k) THEN Append(Without(c, k), c[IndexOf(c, k)]) ELSE c

\* mutant: the least recently used entry is removed, whatever the key
lru_remove_Oldest(c, k) == IF c = <<>> THEN c ELSE Tail(c)

\* mutant: the entries that hold the Lookup held under k go with it
lru_remove_Lookup(c, k) ==
    IF contains_key(c, k) /\ ValueOf(c, k).result = "Ok"
    THEN SelectSeq(c, LAMBDA e : e.value.result # "Ok"
                                    \/ e.value.lookup # ValueOf(c, k).lookup)
    ELSE Without(c, k)

\* LruCache::remove
lru_remove(c, k) == Without(c, k)

\* mutant: clear drops only the least recently used entry
lru_clear_One(c) == IF c = <<>> THEN c ELSE Tail(c)

\* LruCache::clear
lru_clear(c) == <<>>

---------------------------------------------------------------------------
(* TtlConfig and DnsLru::new *)

TtlConfig(pmin, nmin, pmax, nmax) ==
    [positive_min_ttl |-> pmin, negative_min_ttl |-> nmin,
     positive_max_ttl |-> pmax, negative_max_ttl |-> nmax]

\* mutant: an unset positive_max_ttl leaves no time to live at all
new_ZeroCeiling(capacity, ttl_cfg, dnssec) ==
    [capacity |-> capacity,
     positive_min_ttl |-> unwrap_or(ttl_cfg.positive_min_ttl, from_secs(0)),
     negative_min_ttl |-> unwrap_or(ttl_cfg.negative_min_ttl, from_secs(0)),
     positive_max_ttl |-> unwrap_or(ttl_cfg.positive_max_ttl, from_secs(0)),
     negative_max_ttl |-> unwrap_or(ttl_cfg.negative_max_ttl, from_secs(MAX_TTL)),
     dnssec |-> dnssec]

new(capacity, ttl_cfg, dnssec) ==
    [capacity |-> capacity,
     positive_min_ttl |-> unwrap_or(ttl_cfg.positive_min_ttl, from_secs(0)),
     negative_min_ttl |-> unwrap_or(ttl_cfg.negative_min_ttl, from_secs(0)),
     positive_max_ttl |-> unwrap_or(ttl_cfg.positive_max_ttl, from_secs(MAX_TTL)),
     negative_max_ttl |-> unwrap_or(ttl_cfg.negative_max_ttl, from_secs(MAX_TTL)),
     dnssec |-> dnssec]

---------------------------------------------------------------------------
(* DnsLru: the operations as functions of the store *)

RECURSIVE FoldMinTtl(_, _)
\* the fold of insert: the minimum of positive_max_ttl and every pair's TTL
FoldMinTtl(records_and_ttl, min_ttl) ==
    IF records_and_ttl = <<>> THEN min_ttl
    ELSE FoldMinTtl(Tail(records_and_ttl),
                    DurMin(min_ttl, from_secs(Head(records_and_ttl)[2])))

\* mutant: the fold starts from MAX_TTL, the ceiling positive_max_ttl is not applied
InsertTtl_NoCeiling(c, records_and_ttl) ==
    DurMax(c.positive_min_ttl, FoldMinTtl(records_and_ttl, from_secs(MAX_TTL)))

\* mutant: the floor positive_min_ttl is not applied
InsertTtl_NoFloor(c, records_and_ttl) ==
    FoldMinTtl(records_and_ttl, c.positive_max_ttl)

\* mutant: the ceiling is applied after the floor
InsertTtl_CeilingLast(c, records_and_ttl) ==
    DurMin(c.positive_max_ttl,
           DurMax(c.positive_min_ttl, FoldMinTtl(records_and_ttl, from_secs(MAX_TTL))))

InsertTtl(c, records_and_ttl) ==
    DurMax(c.positive_min_ttl, FoldMinTtl(records_and_ttl, c.positive_max_ttl))

\* mutant: an empty record list is returned as a Lookup but not stored
insert_SkipEmpty(store, c, query, records_and_ttl, now) ==
    LET records == [i \in 1..Len(records_and_ttl) |-> records_and_ttl[i][1]]
        valid_until == now + InsertTtl(c, records_and_ttl)
        lookup == new_with_deadline(query, records, valid_until)
    IN  [store |-> IF records_and_ttl = <<>> THEN store
                   ELSE lru_insert(store, c.capacity, query, LruValueOk(lookup, valid_until)),
         lookup |-> lookup]

\* DnsLru::insert: the store afterwards and the Lookup returned
insert(store, c, query, records_and_ttl, now) ==
    LET records == [i \in 1..Len(records_and_ttl) |-> records_and_ttl[i][1]]
        valid_until == now + InsertTtl(c, records_and_ttl)
        lookup == new_with_deadline(query, records, valid_until)
    IN  [store |-> lru_insert(store, c.capacity, query, LruValueOk(lookup, valid_until)),
         lookup |-> lookup]

\* mutant: the ttl is clamped into the positive bounds, as insert does
duplicate_Clamped(store, c, query, lookup, ttl_secs, now) ==
    LET valid_until == now + DurMax(c.positive_min_ttl,
                                    DurMin(c.positive_max_ttl, from_secs(ttl_secs)))
    IN  [store |-> lru_insert(store, c.capacity, query, LruValueOk(lookup, valid_until)),
         lookup |-> lookup]

\* DnsLru::duplicate
duplicate(store, c, query, lookup, ttl_secs, now) ==
    LET valid_until == now + from_secs(ttl_secs)
    IN  [store |-> lru_insert(store, c.capacity, query, LruValueOk(lookup, valid_until)),
         lookup |-> lookup]

\* mutant: the error goes out with the negative_ttl it came with
nx_error_with_ttl_Kept(error, new_ttl) == error

\* DnsLru::nx_error_with_ttl
nx_error_with_ttl(error, new_ttl) ==
    IF error.kind = "NoRecordsFound"
    THEN [error EXCEPT !.negative_ttl = Some(try_from_u32_or(as_secs(new_ttl), MAX_TTL))]
    ELSE error

\* mutant: the ceiling negative_max_ttl is not applied
NegativeTtl_NoCeiling(c, ttl_secs) ==
    DurMax(from_secs(ttl_secs), c.negative_min_ttl)

NegativeTtl(c, ttl_secs) ==
    Clamp(from_secs(ttl_secs), c.negative_min_ttl, c.negative_max_ttl)

\* mutant: an error without negative_ttl is cached as if it carried 0
negative_Always(store, c, query, error, now) ==
    LET valid_until == now + NegativeTtl(c, unwrap_or(error.negative_ttl, 0))
    IN  [store |-> lru_insert(store, c.capacity, query, LruValueErr(error, valid_until)),
         error |-> error, panicked |-> FALSE]

\* DnsLru::negative: the store afterwards, the error returned, and whether
\* Ord::clamp panicked (then the store is untouched and nothing is returned)
negative(store, c, query, error, now) ==
    IF error.kind = "NoRecordsFound" /\ error.negative_ttl # None
    THEN IF ClampPanics(c.negative_min_ttl, c.negative_max_ttl)
         THEN [store |-> store, error |-> NoError, panicked |-> TRUE]
         ELSE LET ttl_duration == NegativeTtl(c, error.negative_ttl[1])
                  valid_until == now + ttl_duration
              IN  [store |-> lru_insert(store, c.capacity, query,
                                         LruValueErr(error, valid_until)),
                   error |-> nx_error_with_ttl(error, ttl_duration),
                   panicked |-> FALSE]
    ELSE [store |-> store, error |-> error, panicked |-> FALSE]

\* mutant: a hit writes the rebased value back into the store
get_StoresRebased(store, query, now) ==
    LET refreshed == lru_get_mut(store, query)
    IN  IF ~contains_key(store, query)
        THEN [store |-> refreshed, found |-> FALSE, value |-> LruValueErr(NoError, 0),
              out_of_date |-> FALSE]
        ELSE LET value == ValueOf(store, query)
             IN  IF is_current(value, now)
                 THEN LET updated == with_updated_ttl(value, now)
                          result ==
                              IF updated.result = "Err"
                              THEN [updated EXCEPT !.error =
                                        nx_error_with_ttl(updated.error, ttl(value, now))]
                              ELSE updated
                      IN  [store |-> Append(Without(store, query), Entry(query, result)),
                           found |-> TRUE, value |-> result, out_of_date |-> FALSE]
                 ELSE [store |-> lru_remove(refreshed, query), found |-> FALSE,
                       value |-> LruValueErr(NoError, 0), out_of_date |-> TRUE]

\* DnsLru::get: the store afterwards, the Option<Result<Lookup, ProtoError>>
\* returned (found, and then the rebased value) and the out_of_date flag
get(store, query, now) ==
    LET refreshed == lru_get_mut(store, query)
    IN  IF ~contains_key(store, query)
        THEN [store |-> refreshed, found |-> FALSE, value |-> LruValueErr(NoError, 0),
              out_of_date |-> FALSE]
        ELSE LET value == ValueOf(store, query)
             IN  IF is_current(value, now)
                 THEN LET updated == with_updated_ttl(value, now)
                          result ==
                              IF updated.result = "Err"
                              THEN [updated EXCEPT !.error =
                                        nx_error_with_ttl(updated.error, ttl(value, now))]
                              ELSE updated
                      IN  [store |-> refreshed, found |-> TRUE, value |-> result,
                           out_of_date |-> FALSE]
                 ELSE [store |-> lru_remove(refreshed, query), found |-> FALSE,
                       value |-> LruValueErr(NoError, 0), out_of_date |-> TRUE]

\* mutant: an RRSIG is keyed by its own type, whatever it covers
effective_type_Literal(original_query, record, dnssec) ==
    IF record.record_type = "CNAME" THEN original_query.query_type
    ELSE record.record_type

\* mutant: a CNAME is keyed by its own type, whatever was asked for
effective_type_OwnCname(original_query, record, dnssec) ==
    IF record.record_type = "RRSIG" /\ dnssec /\ record.data.tag = "RRSIG"
    THEN record.data.v ELSE record.record_type

\* the rtype of insert_records: a CNAME goes under the type asked for, an
\* RRSIG (dnssec feature, data that is an RRSIG) under the type it covers
effective_type(original_query, record, dnssec) ==
    CASE record.record_type = "CNAME" -> original_query.query_type
      [] record.record_type = "RRSIG" /\ dnssec ->
            IF record.data.tag = "RRSIG" THEN record.data.v ELSE record.record_type
      [] OTHER -> record.record_type

\* the key a record is collected under
bucket_query(original_query, record, dnssec) ==
    Query(record.name, effective_type(original_query, record, dnssec), record.dns_class)

\* the HashMap<Query, Vec<(Record, u32)>> the fold builds: its keys
bucket_keys(original_query, records, dnssec) ==
    {bucket_query(original_query, records[i], dnssec) : i \in 1..Len(records)}

\* mutant: a record takes the place of the one filed under its key before it
bucket_Latest(original_query, records, dnssec, key) ==
    LET mine == SelectSeq(records,
                    LAMBDA r : bucket_query(original_query, r, dnssec) = key)
    IN  IF mine = <<>> THEN <<>> ELSE <<<<mine[Len(mine)], mine[Len(mine)].ttl>>>>

\* ... and the vector under a key: its records in the order given, each with its TTL
bucket(original_query, records, dnssec, key) ==
    LET mine == SelectSeq(records,
                    LAMBDA r : bucket_query(original_query, r, dnssec) = key)
    IN  [i \in 1..Len(mine) |-> <<mine[i], mine[i].ttl>>]

RECURSIVE insert_buckets_Any(_, _, _, _, _, _, _)
\* mutant: the Lookup of the bucket inserted last is returned, is_query or not
insert_buckets_Any(store, c, original_query, records, now, order, lookup) ==
    IF order = <<>> THEN [store |-> store, lookup |-> lookup]
    ELSE LET query == Head(order)
             inserted == insert(store, c, query,
                                bucket(original_query, records, c.dnssec, query), now)
         IN  insert_buckets_Any(inserted.store, c, original_query, records, now,
                                Tail(order), Some(inserted.lookup))

RECURSIVE insert_buckets(_, _, _, _, _, _, _)
\* the loop of insert_records over the map, in the order the HashMap yields
\* its keys: the store afterwards and the Option<Lookup> returned
insert_buckets(store, c, original_query, records, now, order, lookup) ==
    IF order = <<>> THEN [store |-> store, lookup |-> lookup]
    ELSE LET query == Head(order)
             inserted == insert(store, c, query,
                                bucket(original_query, records, c.dnssec, query), now)
         IN  insert_buckets(inserted.store, c, original_query, records, now, Tail(order),
                            IF original_query = query THEN Some(inserted.lookup)
                            ELSE lookup)

\* DnsLru::insert_records
insert_records(store, c, original_query, records, now, order) ==
    insert_buckets(store, c, original_query, records, now, order, None)

\* DnsLru::clear
clear(store) == lru_clear(store)

---------------------------------------------------------------------------
(* What callers pass in *)

Instants == 0..MaxNow

\* the cache keys the resolver asks for
Queries ==
    {Query("example.com.", "A", "IN"),
     Query("www.example.com.", "A", "IN")}

\* per-record TTLs (seconds) of the answers, one record per TTL
RecordTtls == {0, 5}

\* negative_ttl values (seconds) carried by NoRecordsFound
NegativeTtls == {0, 5}

\* the ttl argument (seconds) of duplicate
DuplicateTtls == {0, 6}

\* the records that can answer `query`, with the TTLs in ttls
AnswersWith(query, ttls) ==
    {Record(query.name, query.query_type, query.query_class, t, query.query_type, "rdata")
        : t \in ttls}

\* the records that can answer `query`
AnswersTo(query) == AnswersWith(query, RecordTtls)

\* (Record, u32) lists of distinct records out of S, of the lengths in lens
RecordsAndTtl(S, lens) ==
    UNION {{s \in [1..n -> {<<r, r.ttl>> : r \in S}] :
                \A i, j \in 1..n : i # j => s[i] # s[j]} : n \in lens}

\* the errors a failed resolution hands to negative()
Errors ==
    {ProtoError("NoRecordsFound", Some(t)) : t \in NegativeTtls}
        \cup {ProtoError("NoRecordsFound", None), ProtoError("Message", None)}

\* the Lookups held by the store, which a caller can hand to duplicate()
CachedLookups ==
    {cache[i].value.lookup : i \in {j \in 1..Len(cache) : cache[j].value.result = "Ok"}}

\* TtlConfig::default(): every bound unset
DefaultTtls == TtlConfig(None, None, None, None)

\* whole-second bounds, the positive ones apart from the negative ones
SecondTtls ==
    TtlConfig(Some(from_secs(1)), Some(from_secs(1)), Some(from_secs(3)), Some(from_secs(4)))

\* bounds beyond the u32 range of seconds, the positive floor above the
\* (default) positive ceiling
WideTtls ==
    TtlConfig(Some(from_secs(U32Modulus + 1)), Some(from_secs(U32Modulus + 2)),
              None, Some(from_secs(U32Modulus + 4)))

\* DnsLru::new(capacity, ttl_cfg) as the resolver constructs its cache
Constructions ==
    {<<1, DefaultTtls>>, <<1, SecondTtls>>, <<2, SecondTtls>>, <<1, WideTtls>>}

---------------------------------------------------------------------------
(* The calls *)

\* what the latest call was given and what it returned; `replaced` is the
\* Option<LruValue> LruCache::insert hands back (the kind of the value a write
\* replaced, and whether its deadline lay beyond the new one), `evicted` the
\* keys the call removed from the store
Call(op, query, now) ==
    [query |-> query, lookup |-> NoLookup, result |-> "Unit", error |-> NoError,
     now |-> now, records_and_ttl |-> <<>>, out_of_date |-> FALSE, op |-> op,
     lookup_arg |-> NoLookup, ttl_arg |-> None, error_arg |-> NoError,
     replaced |-> None, evicted |-> {}]

Replaced(store, after, query) ==
    IF contains_key(store, query)
    THEN Some([result |-> ValueOf(store, query).result,
               later |-> contains_key(after, query) /\
                   ValueOf(store, query).valid_until > ValueOf(after, query).valid_until])
    ELSE None

Evicted(store, after) == Keys(store) \ Keys(after)

\* one handle, one caller: every call runs from its first lock to its last
\* unlock before the next begins
SingleHandle ==
    /\ mutex = None
    /\ procs = <<>>

Init ==
    /\ cache = <<>>
    /\ \E c \in Constructions : cfg = new(c[1], c[2], TRUE)
    /\ last = Call("new", NoQuery, 0)
    /\ used = {}
    /\ SingleHandle

InsertOf(queries, instants, ttls, lens) ==
    \E query \in queries, now \in instants :
        \E records_and_ttl \in RecordsAndTtl(AnswersWith(query, ttls), lens) :
            LET r == insert(cache, cfg, query, records_and_ttl, now)
            IN  /\ cache' = r.store
                /\ last' = [Call("insert", query, now) EXCEPT
                                !.records_and_ttl = records_and_ttl,
                                !.result = "Ok", !.lookup = r.lookup,
                                !.replaced = Replaced(cache, r.store, query),
                                !.evicted = Evicted(cache, r.store)]
                /\ used' = used \cup {query}
                /\ UNCHANGED <<cfg, mutex, procs>>

InsertLen(lens) == InsertOf(Queries, Instants, RecordTtls, lens)

Insert == InsertLen(0..MaxRecs)

NegativeAmong(queries, instants, errors) ==
    \E query \in queries, now \in instants, error \in errors :
        LET r == negative(cache, cfg, query, error, now)
        IN  /\ cache' = r.store
            /\ last' = [Call("negative", query, now) EXCEPT
                            !.error_arg = error,
                            !.result = IF r.panicked THEN "Panic" ELSE "Err",
                            !.error = r.error,
                            !.replaced = IF r.store = cache THEN None
                                         ELSE Replaced(cache, r.store, query),
                            !.evicted = Evicted(cache, r.store)]
            /\ used' = IF error.kind = "NoRecordsFound" /\ error.negative_ttl # None
                          /\ ~r.panicked
                       THEN used \cup {query} ELSE used
            /\ UNCHANGED <<cfg, mutex, procs>>

NegativeOf(errors) == NegativeAmong(Queries, Instants, errors)

Negative == NegativeOf(Errors)

GetAt(queries, instants) ==
    \E query \in queries, now \in instants :
        LET r == get(cache, query, now)
        IN  /\ cache' = r.store
            /\ last' = [Call("get", query, now) EXCEPT
                            !.result = IF r.found THEN r.value.result ELSE "None",
                            !.lookup = r.value.lookup,
                            !.error = r.value.error,
                            !.out_of_date = r.out_of_date,
                            !.evicted = Evicted(cache, r.store)]
            /\ UNCHANGED <<cfg, used, mutex, procs>>

GetOf(queries) == GetAt(queries, Instants)

Get == GetOf(Queries)

Clear ==
    /\ cache' = clear(cache)
    /\ last' = [Call("clear", NoQuery, 0) EXCEPT !.evicted = Evicted(cache, clear(cache))]
    /\ UNCHANGED <<cfg, used, mutex, procs>>

Next ==
    \/ Insert
    \/ Negative
    \/ Get
    \/ Clear

Spec == Init /\ [][Next]_vars

---------------------------------------------------------------------------
(* Aliases: duplicate() next to the other writes, on single-record answers
   and errors that carry a negative_ttl *)

\* an already cached Lookup is stored again under an other Query
DuplicateOf(queries, instants, ttls) ==
    \E query \in queries, now \in instants, ttl_secs \in ttls :
        \E lookup \in {l \in CachedLookups : l.query # query} :
            LET r == duplicate(cache, cfg, query, lookup, ttl_secs, now)
            IN  /\ cache' = r.store
                /\ last' = [Call("duplicate", query, now) EXCEPT
                                !.lookup_arg = lookup, !.ttl_arg = Some(ttl_secs),
                                !.result = "Ok", !.lookup = r.lookup,
                                !.replaced = Replaced(cache, r.store, query),
                                !.evicted = Evicted(cache, r.store)]
                /\ used' = used \cup {query}
                /\ UNCHANGED <<cfg, mutex, procs>>

Duplicate == DuplicateOf(Queries, Instants, DuplicateTtls)

InitAlias ==
    /\ cache = <<>>
    /\ \E capacity \in {1, 2} : cfg = new(capacity, SecondTtls, TRUE)
    /\ last = Call("new", NoQuery, 0)
    /\ used = {}
    /\ SingleHandle

InsertOne == InsertLen({1})

NegativeWithTtl == NegativeOf({e \in Errors : e.negative_ttl # None})

NextAlias ==
    \/ InsertOne
    \/ Duplicate
    \/ NegativeWithTtl
    \/ Get
    \/ Clear

SpecAlias == InitAlias /\ [][NextAlias]_vars

---------------------------------------------------------------------------
(* Responses: insert_records() on the records of a signed response *)

\* the most records one response carries
MaxBatch == 2

Apex == "example.com."

\* the records of a signed zone's apex: an address and its signature, and a
\* signature over the NS set
SignedRecords ==
    {Record(Apex, "A", "IN", 5, "A", "192.0.2.1"),
     Record(Apex, "RRSIG", "IN", 5, "RRSIG", "A"),
     Record(Apex, "RRSIG", "IN", 0, "RRSIG", "NS")}

\* the responses: at most MaxBatch distinct records out of S, in any order
Responses(S) ==
    UNION {{s \in [1..n -> S] :
                \A i, j \in 1..n : i # j => s[i] # s[j]} : n \in 0..MaxBatch}

\* the query they answer
SignedQueries == {Query(Apex, "A", "IN")}

\* the orders in which a HashMap can yield the keys S
Orders(S) ==
    {o \in [1..Cardinality(S) -> S] : \A i, j \in 1..Cardinality(S) : i # j => o[i] # o[j]}

InsertRecordsAt(queries, instants, records_set) ==
    \E original_query \in queries, now \in instants, records \in Responses(records_set) :
        \E order \in Orders(bucket_keys(original_query, records, cfg.dnssec)) :
            LET r == insert_records(cache, cfg, original_query, records, now, order)
            IN  /\ cache' = r.store
                /\ last' = [Call("insert_records", original_query, now) EXCEPT
                                !.records_and_ttl =
                                    [i \in 1..Len(records) |-> <<records[i], records[i].ttl>>],
                                !.result = IF r.lookup = None THEN "None" ELSE "Ok",
                                !.lookup = unwrap_or(r.lookup, NoLookup),
                                !.evicted = Evicted(cache, r.store)]
                /\ used' = used \cup bucket_keys(original_query, records, cfg.dnssec)
                /\ UNCHANGED <<cfg, mutex, procs>>

InsertRecordsOf(queries, records_set) == InsertRecordsAt(queries, Instants, records_set)

InitRecords ==
    /\ cache = <<>>
    /\ \E dnssec \in BOOLEAN : cfg = new(2, SecondTtls, dnssec)
    /\ last = Call("new", NoQuery, 0)
    /\ used = {}
    /\ SingleHandle

InsertSigned == InsertRecordsOf(SignedQueries, SignedRecords)

GetSigned ==
    GetOf({Query(Apex, "A", "IN"), Query(Apex, "NS", "IN"), Query(Apex, "RRSIG", "IN")})

NextRecords ==
    \/ InsertSigned
    \/ GetSigned
    \/ Clear

SpecRecords == InitRecords /\ [][NextRecords]_vars

---------------------------------------------------------------------------
(* Capacity: stores with room for none, some or all of the keys *)

\* the capacities a resolver is configured with: cache_size is a usize
Capacities == {0, 1, 2, 3}

\* as many keys as the largest capacity
ManyQueries == Queries \cup {Query("example.com.", "AAAA", "IN")}

\* the third key is the alias the resolver duplicates answers under
AliasKeys == {Query("example.com.", "AAAA", "IN")}

\* the first and the last instant
EndInstants == {0, MaxNow}

\* one answer per query, with TTL 0
OneAnswerTo(query) == AnswersWith(query, {0})

InitCapacity ==
    /\ cache = <<>>
    /\ \E capacity \in Capacities : cfg = new(capacity, DefaultTtls, TRUE)
    /\ last = Call("new", NoQuery, 0)
    /\ used = {}
    /\ SingleHandle

\* answers arrive under the plain keys only: what the alias key holds is
\* long-lived (a negative entry, or a duplicate)
InsertMany == InsertOf(Queries, EndInstants, {0}, {1})

NegativeMany ==
    NegativeAmong(ManyQueries, EndInstants, {ProtoError("NoRecordsFound", Some(5))})

DuplicateMany == DuplicateOf(AliasKeys, EndInstants, {6})

GetMany == GetAt(ManyQueries, EndInstants)

NextCapacity ==
    \/ InsertMany
    \/ NegativeMany
    \/ DuplicateMany
    \/ GetMany
    \/ Clear

SpecCapacity == InitCapacity /\ [][NextCapacity]_vars

---------------------------------------------------------------------------
(* Bounds: every write, under bounds in order and under bounds where each
   floor lies above its ceiling *)

\* each min above the corresponding max
InvertedTtls ==
    TtlConfig(Some(from_secs(3)), Some(from_secs(3)), Some(from_secs(1)), Some(from_secs(1)))

InitBounds ==
    /\ cache = <<>>
    /\ \E ttl_cfg \in {SecondTtls, InvertedTtls} : cfg = new(1, ttl_cfg, TRUE)
    /\ last = Call("new", NoQuery, 0)
    /\ used = {}
    /\ SingleHandle

NextBounds ==
    \/ InsertOne
    \/ Duplicate
    \/ Negative
    \/ Get
    \/ Clear

SpecBounds == InitBounds /\ [][NextBounds]_vars

---------------------------------------------------------------------------
(* Canonical names: insert_records() on a response that answers through a
   CNAME *)

Alias == "www.example.com."

\* www.example.com. is an alias of example.com., which has an address
AliasRecords ==
    {Record(Alias, "CNAME", "IN", 5, "CNAME", Apex),
     Record(Apex, "A", "IN", 0, "A", "192.0.2.1")}

\* the alias is asked for its address, or for the CNAME itself
AliasQueries == {Query(Alias, "A", "IN"), Query(Alias, "CNAME", "IN")}

InitCname ==
    /\ cache = <<>>
    /\ cfg = new(2, SecondTtls, TRUE)
    /\ last = Call("new", NoQuery, 0)
    /\ used = {}
    /\ SingleHandle

InsertAliased == InsertRecordsOf(AliasQueries, AliasRecords)

GetAliased ==
    GetOf(AliasQueries \cup {Query(Apex, "A", "IN")})

NextCname ==
    \/ InsertAliased
    \/ GetAliased
    \/ Clear

SpecCname == InitCname /\ [][NextCname]_vars

---------------------------------------------------------------------------
(* Shared handles: clones of one DnsLru, each in a call of its own, every
   store call behind the one Mutex.  A call proceeds by steps: it locks,
   makes its store call (get: get_mut, then remove if the entry is out of
   date), and unlocks when the guard is dropped; insert_records does so anew
   for every bucket, through insert *)

\* the DnsLru and a clone of it
Handles == {"resolver", "clone"}

\* the call a handle is in: `pending` are the (key, records) still to be
\* inserted, `done` counts the store calls made so far, `wrote` is history:
\* whether the handle has ever written to the store
Proc(pc, op, query, now, pending, done, result, wrote) ==
    [pc |-> pc, op |-> op, query |-> query, now |-> now, pending |-> pending,
     done |-> done, result |-> result, wrote |-> wrote]

Returned(proc, result) ==
    [proc EXCEPT !.pc = "idle", !.pending = <<>>, !.result = result]

\* lines 381-393 of get: get_mut and the closure on the value found
get_mut_and_then(store, query, now) ==
    [store |-> lru_get_mut(store, query),
     result |-> IF contains_key(store, query) /\ is_current(ValueOf(store, query), now)
                THEN ValueOf(store, query).result ELSE "None",
     out_of_date |-> contains_key(store, query) /\ ~is_current(ValueOf(store, query), now)]

\* the answers two resolutions bring: one record under each key
SharedRecords ==
    <<Record("example.com.", "A", "IN", 0, "A", "rdata"),
      Record("www.example.com.", "A", "IN", 0, "A", "rdata")>>

InitShared ==
    /\ cache = <<>>
    /\ cfg = new(2, DefaultTtls, TRUE)
    /\ last = Call("new", NoQuery, 0)
    /\ used = {}
    /\ mutex = None
    /\ procs = [h \in Handles |-> Proc("idle", "new", NoQuery, 0, <<>>, 0, "Unit", FALSE)]

StartInsertOf(h, queries, instants) ==
    /\ procs[h].pc = "idle"
    /\ \E query \in queries, now \in instants :
        \E records_and_ttl \in RecordsAndTtl(OneAnswerTo(query), {1}) :
            procs' = [procs EXCEPT ![h] =
                        Proc("lock", "insert", query, now, <<<<query, records_and_ttl>>>>,
                             0, "Unit", procs[h].wrote)]
    /\ UNCHANGED <<cache, cfg, last, used, mutex>>

StartInsert(h) == StartInsertOf(h, Queries, EndInstants)

\* the fold of insert_records touches no shared state: the call starts with
\* its buckets, in the order the HashMap will yield them
StartInsertRecordsOf(h, queries, instants) ==
    /\ procs[h].pc = "idle"
    /\ \E original_query \in queries, now \in instants :
        \E order \in Orders(bucket_keys(original_query, SharedRecords, cfg.dnssec)) :
            procs' = [procs EXCEPT ![h] =
                        Proc("lock", "insert_records", original_query, now,
                             [i \in 1..Len(order) |->
                                <<order[i],
                                  bucket(original_query, SharedRecords, cfg.dnssec, order[i])>>],
                             0, "None", procs[h].wrote)]
    /\ UNCHANGED <<cache, cfg, last, used, mutex>>

StartInsertRecords(h) == StartInsertRecordsOf(h, Queries, EndInstants)

StartGetOf(h, queries, instants) ==
    /\ procs[h].pc = "idle"
    /\ \E query \in queries, now \in instants :
            procs' = [procs EXCEPT ![h] =
                        Proc("lock", "get", query, now, <<>>, 0, "None", procs[h].wrote)]
    /\ UNCHANGED <<cache, cfg, last, used, mutex>>

StartGet(h) == StartGetOf(h, Queries, EndInstants)

StartClear(h) ==
    /\ procs[h].pc = "idle"
    /\ procs' = [procs EXCEPT ![h] =
                    Proc("lock", "clear", NoQuery, 0, <<>>, 0, "Unit", procs[h].wrote)]
    /\ UNCHANGED <<cache, cfg, last, used, mutex>>

\* mutant: the lock is taken whether or not it is held
Lock_Barging(h) ==
    /\ procs[h].pc = "lock"
    /\ mutex' = Some(h)
    /\ procs' = [procs EXCEPT ![h].pc = "locked"]
    /\ UNCHANGED <<cache, cfg, last, used>>

\* self.cache.lock(): waits until the Mutex is free
Lock(h) ==
    /\ procs[h].pc = "lock"
    /\ mutex = None
    /\ mutex' = Some(h)
    /\ procs' = [procs EXCEPT ![h].pc = "locked"]
    /\ UNCHANGED <<cache, cfg, last, used>>

\* mutant: the clone writes to a store of its own, the shared one is not touched
StoreInsert_Private(h) ==
    /\ procs[h].pc = "locked"
    /\ procs[h].op \in {"insert", "insert_records"}
    /\ mutex = Some(h)
    /\ procs' = [procs EXCEPT ![h].pc = "unlock",
                              ![h].pending = Tail(procs[h].pending),
                              ![h].done = procs[h].done + 1,
                              ![h].wrote = TRUE]
    /\ UNCHANGED <<cache, cfg, last, used, mutex>>

\* LruCache::insert of the next bucket, under the lock
StoreInsert(h) ==
    /\ procs[h].pc = "locked"
    /\ procs[h].op \in {"insert", "insert_records"}
    /\ mutex = Some(h)
    /\ LET key == Head(procs[h].pending)[1]
           records_and_ttl == Head(procs[h].pending)[2]
       IN  /\ cache' = insert(cache, cfg, key, records_and_ttl, procs[h].now).store
           /\ used' = used \cup {key}
           /\ procs' = [procs EXCEPT ![h].pc = "unlock",
                                     ![h].pending = Tail(procs[h].pending),
                                     ![h].done = procs[h].done + 1,
                                     ![h].result = IF key = procs[h].query THEN "Ok"
                                                   ELSE procs[h].result,
                                     ![h].wrote = TRUE]
    /\ UNCHANGED <<cfg, last, mutex>>

\* mutant: for the remove of an entry out of date, get goes for the lock again
StoreGet_Relock(h) ==
    /\ procs[h].pc = "locked"
    /\ procs[h].op = "get"
    /\ mutex = Some(h)
    /\ LET r == get_mut_and_then(cache, procs[h].query, procs[h].now)
       IN  /\ cache' = r.store
           /\ procs' = [procs EXCEPT ![h].pc = IF r.out_of_date THEN "lock" ELSE "unlock",
                                     ![h].done = procs[h].done + 1,
                                     ![h].result = r.result]
    /\ UNCHANGED <<cfg, last, used, mutex>>

\* get_mut and the closure of get, under the lock; the lock is kept for the
\* remove that follows if the entry is out of date
StoreGet(h) ==
    /\ procs[h].pc = "locked"
    /\ procs[h].op = "get"
    /\ mutex = Some(h)
    /\ LET r == get_mut_and_then(cache, procs[h].query, procs[h].now)
       IN  /\ cache' = r.store
           /\ procs' = [procs EXCEPT ![h].pc = IF r.out_of_date THEN "remove" ELSE "unlock",
                                     ![h].done = procs[h].done + 1,
                                     ![h].result = r.result]
    /\ UNCHANGED <<cfg, last, used, mutex>>

\* cache.remove(query) of get, under the lock taken for get_mut
StoreRemove(h) ==
    /\ procs[h].pc = "remove"
    /\ mutex = Some(h)
    /\ cache' = lru_remove(cache, procs[h].query)
    /\ procs' = [procs EXCEPT ![h].pc = "unlock", ![h].done = procs[h].done + 1]
    /\ UNCHANGED <<cfg, last, used, mutex>>

StoreClear(h) ==
    /\ procs[h].pc = "locked"
    /\ procs[h].op = "clear"
    /\ mutex = Some(h)
    /\ cache' = clear(cache)
    /\ procs' = [procs EXCEPT ![h].pc = "unlock", ![h].done = procs[h].done + 1]
    /\ UNCHANGED <<cfg, last, used, mutex>>

\* the guard is dropped; insert_records goes on to its next bucket, every
\* other call returns
Unlock(h) ==
    /\ procs[h].pc = "unlock"
    /\ mutex = Some(h)
    /\ mutex' = None
    /\ procs' = [procs EXCEPT ![h] =
                    IF procs[h].pending # <<>> THEN [procs[h] EXCEPT !.pc = "lock"]
                    ELSE Returned(procs[h], procs[h].result)]
    /\ UNCHANGED <<cache, cfg, last, used>>

NextShared ==
    \E h \in Handles :
        \/ StartInsert(h)
        \/ StartInsertRecords(h)
        \/ StartGet(h)
        \/ StartClear(h)
        \/ Lock(h)
        \/ StoreInsert(h)
        \/ StoreGet(h)
        \/ StoreRemove(h)
        \/ StoreClear(h)
        \/ Unlock(h)

SpecShared == InitShared /\ [][NextShared]_vars

---------------------------------------------------------------------------
(* Construction: DnsLru::new with every choice of set and unset bounds, and
   the calls that follow on the cache it built *)

\* the call of DnsLru::new: what it was given
NewCall(capacity, ttl_cfg) ==
    Call("new", NoQuery, 0) @@ [capacity |-> capacity, ttl_cfg |-> ttl_cfg]

\* each bound unset, or set to two seconds
InitConfig ==
    /\ cache = <<>>
    /\ \E capacity \in {1, 2} :
        \E pmin, nmin, pmax, nmax \in {None, Some(from_secs(2))} :
            LET ttl_cfg == TtlConfig(pmin, nmin, pmax, nmax)
            IN  /\ cfg = new(capacity, ttl_cfg, TRUE)
                /\ last = NewCall(capacity, ttl_cfg)
    /\ used = {}
    /\ SingleHandle

GetAtEnds == GetAt(Queries, EndInstants)

NextConfig ==
    \/ InsertOf(Queries, EndInstants, {0}, {1})
    \/ NegativeAmong(Queries, EndInstants, {ProtoError("NoRecordsFound", Some(5))})
    \/ DuplicateOf(Queries, EndInstants, {6})
    \/ GetAtEnds
    \/ Clear

SpecConfig == InitConfig /\ [][NextConfig]_vars

---------------------------------------------------------------------------
(* Aliases and their targets: a Lookup held under the key that was asked and
   duplicated under an alias key, in a store with room for two of the three
   keys, through expiry, replacement and eviction *)

InitTargets ==
    /\ cache = <<>>
    /\ cfg = new(2, SecondTtls, TRUE)
    /\ last = Call("new", NoQuery, 0)
    /\ used = {}
    /\ SingleHandle

\* answers arrive under the plain keys and are duplicated under the alias key
NextTargets ==
    \/ InsertOf(Queries, EndInstants, RecordTtls, {1})
    \/ DuplicateOf(AliasKeys, EndInstants, DuplicateTtls)
    \/ NegativeMany
    \/ GetMany
    \/ Clear

SpecTargets == InitTargets /\ [][NextTargets]_vars

---------------------------------------------------------------------------
(* Shared handles under a fair scheduler: a handle that can take a step of
   its call eventually takes it, and a handle that waits for the Mutex gets
   it if it is free again and again (parking_lot hands a lock over to a
   waiting thread in the end); nothing obliges a handle to start a call *)

StepOf(h) ==
    \/ StoreInsert(h)
    \/ StoreGet(h)
    \/ StoreRemove(h)
    \/ StoreClear(h)
    \/ Unlock(h)

\* the one key the calls are about
OneQuery == {Query("example.com.", "A", "IN")}

\* answers are written at the first instant and read at the last, past
\* their deadline
NextFair ==
    \E h \in Handles :
        \/ StartInsertOf(h, OneQuery, {0})
        \/ StartInsertRecordsOf(h, OneQuery, {0})
        \/ StartGetOf(h, OneQuery, {0, MaxNow})
        \/ StartClear(h)
        \/ Lock(h)
        \/ StoreInsert(h)
        \/ StoreGet(h)
        \/ StoreRemove(h)
        \/ StoreClear(h)
        \/ Unlock(h)

SpecFair ==
    /\ InitShared
    /\ [][NextFair]_vars
    /\ \A h \in Handles : SF_vars(Lock(h)) /\ WF_vars(StepOf(h))

---------------------------------------------------------------------------
(* Buckets: insert_records() on responses whose records share an owner: a
   CNAME, an address and the signature over the address, with TTLs that
   differ *)

\* www.example.com. with a CNAME, an address and an RRSIG covering A
OwnerRecords ==
    {Record(Alias, "CNAME", "IN", 5, "CNAME", Apex),
     Record(Alias, "A", "IN", 0, "A", "192.0.2.2"),
     Record(Alias, "RRSIG", "IN", 2, "RRSIG", "A")}

InitBuckets ==
    /\ cache = <<>>
    /\ \E dnssec \in BOOLEAN : cfg = new(3, SecondTtls, dnssec)
    /\ last = Call("new", NoQuery, 0)
    /\ used = {}
    /\ SingleHandle

NextBuckets ==
    \/ InsertRecordsAt(AliasQueries, EndInstants, OwnerRecords)
    \/ GetAt(AliasQueries \cup {Query(Alias, "RRSIG", "IN")}, EndInstants)
    \/ Clear

SpecBuckets == InitBuckets /\ [][NextBuckets]_vars

---------------------------------------------------------------------------
(* A floor above the ceiling: inserts of record lists with TTLs below the
   ceiling, between the two and above the floor *)

InitInverted ==
    /\ cache = <<>>
    /\ cfg = new(1, InvertedTtls, TRUE)
    /\ last = Call("new", NoQuery, 0)
    /\ used = {}
    /\ SingleHandle

\* record TTLs of 0, 2 and 5 s, around positive_max_ttl = 1 s and
\* positive_min_ttl = 3 s
NextInverted ==
    \/ InsertOf(Queries, EndInstants, {0, 2, 5}, 0..MaxRecs)
    \/ GetAtEnds
    \/ Clear

SpecInverted == InitInverted /\ [][NextInverted]_vars

---------------------------------------------------------------------------
(* Vocabulary of the properties *)

MinOf(S) == CHOOSE m \in S : \A x \in S : m <= x

\* the point of [lo, hi] nearest to x, for lo <= hi
Clamped(x, lo, hi) ==
    CHOOSE y \in {x, lo, hi} :
        /\ lo <= y /\ y <= hi
        /\ (lo <= x /\ x <= hi) => y = x
        /\ x < lo => y = lo
        /\ x > hi => y = hi

PairTtls(records_and_ttl) ==
    {from_secs(records_and_ttl[i][2]) : i \in 1..Len(records_and_ttl)}

CarriesTtl(error) == error.kind = "NoRecordsFound" /\ error.negative_ttl # None

Stored(query) == ValueOf(cache, query)

\* whole seconds as a 32-bit TTL field can hold them
FitsU32(secs) == secs < U32Modulus

---------------------------------------------------------------------------
(* C1: a positive insert of n >= 1 records under bounds positive_min <=
   positive_max stores the entry with, and returns a Lookup with, the
   deadline now + clamp(min of the records' TTLs, positive_min, positive_max) *)
C1_InsertDeadline ==
    (/\ last.op = "insert"
     /\ Len(last.records_and_ttl) >= 1
     /\ cfg.positive_min_ttl <= cfg.positive_max_ttl)
    => LET deadline == last.now + Clamped(MinOf(PairTtls(last.records_and_ttl)),
                                           cfg.positive_min_ttl, cfg.positive_max_ttl)
       IN  /\ last.lookup.valid_until = deadline
           /\ contains_key(cache, last.query)
           /\ Stored(last.query).result = "Ok"
           /\ Stored(last.query).valid_until = deadline

\* two records of different TTLs, the smaller one below the floor
C1_Witness ==
    /\ last.op = "insert"
    /\ Len(last.records_and_ttl) = 2
    /\ last.records_and_ttl[1][2] > last.records_and_ttl[2][2]
    /\ 0 < cfg.positive_min_ttl /\ cfg.positive_min_ttl <= cfg.positive_max_ttl
    /\ from_secs(last.records_and_ttl[2][2]) < cfg.positive_min_ttl
    /\ Stored(last.query).valid_until = last.now + cfg.positive_min_ttl

(* C2 as stated: negative() with negative_ttl = t under bounds negative_min <=
   negative_max stores a Negative entry with deadline now + clamp(t, min, max)
   and returns the error with negative_ttl rewritten to that clamp *)
C2_Original ==
    (/\ last.op = "negative"
     /\ CarriesTtl(last.error_arg)
     /\ cfg.negative_min_ttl <= cfg.negative_max_ttl)
    => LET clamp == Clamped(from_secs(last.error_arg.negative_ttl[1]),
                            cfg.negative_min_ttl, cfg.negative_max_ttl)
       IN  /\ contains_key(cache, last.query)
           /\ Stored(last.query).result = "Err"
           /\ Stored(last.query).valid_until = last.now + clamp
           /\ last.result = "Err"
           /\ last.error.kind = last.error_arg.kind
           /\ last.error.negative_ttl # None
           /\ from_secs(last.error.negative_ttl[1]) = clamp

(* C2, amended: the deadline is now + clamp(t, min, max); the returned
   negative_ttl is that clamp in whole seconds when they fit in 32 bits, and
   MAX_TTL otherwise; the stored error is the one given *)
C2_NegativeDeadline ==
    (/\ last.op = "negative"
     /\ CarriesTtl(last.error_arg)
     /\ cfg.negative_min_ttl <= cfg.negative_max_ttl)
    => LET clamp == Clamped(from_secs(last.error_arg.negative_ttl[1]),
                            cfg.negative_min_ttl, cfg.negative_max_ttl)
       IN  /\ contains_key(cache, last.query)
           /\ Stored(last.query).result = "Err"
           /\ Stored(last.query).error = last.error_arg
           /\ Stored(last.query).valid_until = last.now + clamp
           /\ last.result = "Err"
           /\ last.error.kind = last.error_arg.kind
           /\ last.error.negative_ttl =
                Some(IF FitsU32(as_secs(clamp)) THEN as_secs(clamp) ELSE MAX_TTL)

\* a negative_ttl below the floor, raised to it
C2_Witness ==
    /\ last.op = "negative"
    /\ CarriesTtl(last.error_arg)
    /\ 0 < cfg.negative_min_ttl /\ cfg.negative_min_ttl <= cfg.negative_max_ttl
    /\ from_secs(last.error_arg.negative_ttl[1]) < cfg.negative_min_ttl
    /\ last.error.negative_ttl = Some(as_secs(cfg.negative_min_ttl))
    /\ Stored(last.query).valid_until = last.now + cfg.negative_min_ttl

(* C3: get(q, now) on an entry stored with deadline d hits for every
   now <= d, the deadline itself included, and leaves the deadline as it is;
   for now > d it returns nothing and removes the entry; and a get of a key the
   store does not hold returns nothing, whatever now, and stores nothing *)
C3_HitUntilDeadline ==
    [][last'.op = "get" =>
        IF contains_key(cache, last'.query)
        THEN IF last'.now <= Stored(last'.query).valid_until
             THEN /\ last'.result \in {"Ok", "Err"}
                  /\ contains_key(cache', last'.query)
                  /\ ValueOf(cache', last'.query).valid_until
                        = Stored(last'.query).valid_until
             ELSE /\ last'.result = "None"
                  /\ ~contains_key(cache', last'.query)
        ELSE /\ last'.result = "None"
             /\ ~contains_key(cache', last'.query)]_vars

\* a get past the deadline found the entry and removed it
C3_Witness ==
    /\ last.op = "get"
    /\ last.result = "None"
    /\ last.out_of_date
    /\ last.evicted = {last.query}
    /\ last.query \in used
    /\ ~contains_key(cache, last.query)

(* C4 as stated: a hit on a positive entry with deadline d returns every
   record with TTL d - now in whole seconds, and over successive gets with
   non-decreasing now the TTL does not increase *)
C4_Original ==
    [][(last'.op = "get" /\ last'.result = "Ok") =>
        /\ \A i \in 1..Len(last'.lookup.records) :
                last'.lookup.records[i].ttl
                    = as_secs(Stored(last'.query).valid_until - last'.now)
        /\ (/\ last.op = "get" /\ last.result = "Ok"
            /\ last.query = last'.query /\ last.now <= last'.now)
           => \A i \in 1..Len(last'.lookup.records), j \in 1..Len(last.lookup.records) :
                last'.lookup.records[i].ttl <= last.lookup.records[j].ttl]_vars

(* C4, amended: the TTL is d - now in whole seconds reduced modulo 2^32 (the
   width of the field), hence d - now itself whenever fewer than 2^32 seconds
   remain; the records all carry it whatever TTL they were stored with; over
   successive gets with non-decreasing now it does not increase as long as
   the seconds remaining at the earlier get fit in 32 bits *)
C4_HitTtl ==
    [][(last'.op = "get" /\ last'.result = "Ok") =>
        LET remaining == as_secs(Stored(last'.query).valid_until - last'.now)
        IN  /\ Len(last'.lookup.records) = Len(Stored(last'.query).lookup.records)
            /\ \A i \in 1..Len(last'.lookup.records) :
                /\ last'.lookup.records[i].ttl = remaining % U32Modulus
                /\ FitsU32(remaining) => last'.lookup.records[i].ttl = remaining
            /\ (/\ last.op = "get" /\ last.result = "Ok"
                /\ last.query = last'.query /\ last.now <= last'.now
                /\ FitsU32(as_secs(Stored(last'.query).valid_until - last.now)))
               => \A i \in 1..Len(last'.lookup.records),
                     j \in 1..Len(last.lookup.records) :
                    last'.lookup.records[i].ttl <= last.lookup.records[j].ttl]_vars

\* a hit at the deadline: two records stored with different TTLs both come
\* back with TTL 0
C4_Witness ==
    /\ last.op = "get"
    /\ last.result = "Ok"
    /\ Len(last.lookup.records) = 2
    /\ Stored(last.query).lookup.records[1].ttl # Stored(last.query).lookup.records[2].ttl
    /\ last.now = Stored(last.query).valid_until
    /\ last.now > 0
    /\ \A i \in 1..2 : last.lookup.records[i].ttl = 0

(* C5: a write (insert, duplicate, negative with a negative_ttl) under a key
   leaves exactly one entry under it, the one written, whatever kind or
   deadline the entry it replaces had; a get observes only the entry the
   store holds: it hits iff now is within that entry's deadline, and returns
   that entry's kind, deadline, records and error *)
C5_WriteReplaces ==
    [][/\ (\/ last'.op \in {"insert", "duplicate"}
           \/ last'.op = "negative" /\ last'.error_arg.negative_ttl # None) =>
            /\ Cardinality({i \in 1..Len(cache') : cache'[i].key = last'.query}) = 1
            /\ ValueOf(cache', last'.query).result =
                    (IF last'.op = "negative" THEN "Err" ELSE "Ok")
            /\ ValueOf(cache', last'.query).valid_until =
                CASE last'.op = "insert" -> last'.lookup.valid_until
                  [] last'.op = "duplicate" -> last'.now + from_secs(last'.ttl_arg[1])
                  [] last'.op = "negative" ->
                        last'.now + Clamped(from_secs(last'.error_arg.negative_ttl[1]),
                                            cfg.negative_min_ttl, cfg.negative_max_ttl)
            /\ last'.op # "negative" =>
                    ValueOf(cache', last'.query).lookup = last'.lookup
            /\ last'.op = "negative" =>
                    ValueOf(cache', last'.query).error.kind = last'.error_arg.kind
       /\ (last'.op = "get" /\ contains_key(cache, last'.query)) =>
            LET held == Stored(last'.query)
            IN  IF last'.now <= held.valid_until
                THEN /\ last'.result = held.result
                     /\ last'.result = "Ok" =>
                            /\ last'.lookup.valid_until = held.valid_until
                            /\ last'.lookup.query = held.lookup.query
                            /\ Len(last'.lookup.records) = Len(held.lookup.records)
                            /\ \A i \in 1..Len(held.lookup.records) :
                                    last'.lookup.records[i].data = held.lookup.records[i].data
                     /\ last'.result = "Err" => last'.error.kind = held.error.kind
                ELSE last'.result = "None"]_vars

\* an alias written over a negative entry whose deadline lay beyond its own
C5_Witness ==
    /\ last.op = "duplicate"
    /\ last.replaced = Some([result |-> "Err", later |-> TRUE])
    /\ Stored(last.query).result = "Ok"
    /\ Stored(last.query).valid_until = last.now + from_secs(last.ttl_arg[1])

(* C6: get(q, now) returns nothing for every q never written as a key, and
   such a miss leaves the store (entries, deadlines, order) as it was *)
C6_NeverInserted ==
    [][(last'.op = "get" /\ last'.query \notin used) =>
        /\ last'.result = "None"
        /\ cache' = cache]_vars

\* a miss on a key never written while the store holds another key
C6_Witness ==
    /\ last.op = "get"
    /\ last.query \notin used
    /\ last.result = "None"
    /\ cache # <<>>
    /\ cfg.capacity > Len(cache)

(* C7: clear() leaves the store empty, and on the empty store get(q, now)
   returns nothing for every q and every now, and stores nothing *)
C7_ClearEmpties ==
    [][/\ last'.op = "clear" => cache' = <<>>
       /\ (last'.op = "get" /\ cache = <<>>) =>
            (last'.result = "None" /\ cache' = <<>>)]_vars

\* clear() on a store that held two entries
C7_Witness ==
    /\ last.op = "clear"
    /\ Cardinality(last.evicted) = 2
    /\ cache = <<>>

(* C8: negative() with an error that carries no negative_ttl returns the
   error as given and leaves the store (entries, deadlines, order) as it was *)
C8_NoTtlNoCache ==
    [][(last'.op = "negative" /\ ~CarriesTtl(last'.error_arg)) =>
        /\ last'.result = "Err"
        /\ last'.error = last'.error_arg
        /\ cache' = cache]_vars

\* NoRecordsFound without negative_ttl for a key the store holds
C8_Witness ==
    /\ last.op = "negative"
    /\ last.error_arg = ProtoError("NoRecordsFound", None)
    /\ last.error = last.error_arg
    /\ contains_key(cache, last.query)
    /\ Len(cache) = 2
    /\ cache[1].key = last.query

(* C9 as stated: a hit on a Negative entry with deadline d returns the stored
   error with negative_ttl = d - now in whole seconds; past d, nothing *)
C9_Original ==
    [][(/\ last'.op = "get"
        /\ contains_key(cache, last'.query)
        /\ Stored(last'.query).result = "Err") =>
        IF last'.now <= Stored(last'.query).valid_until
        THEN /\ last'.result = "Err"
             /\ last'.error =
                  [Stored(last'.query).error EXCEPT !.negative_ttl =
                      Some(as_secs(Stored(last'.query).valid_until - last'.now))]
        ELSE last'.result = "None"]_vars

(* C9, amended: the negative_ttl returned is d - now in whole seconds when
   they fit in 32 bits, and MAX_TTL otherwise; past d, nothing *)
C9_NegativeHit ==
    [][(/\ last'.op = "get"
        /\ contains_key(cache, last'.query)
        /\ Stored(last'.query).result = "Err") =>
        LET remaining == as_secs(Stored(last'.query).valid_until - last'.now)
        IN  IF last'.now <= Stored(last'.query).valid_until
            THEN /\ last'.result = "Err"
                 /\ last'.error =
                      [Stored(last'.query).error EXCEPT !.negative_ttl =
                          Some(IF FitsU32(remaining) THEN remaining ELSE MAX_TTL)]
            ELSE last'.result = "None"]_vars

\* a negative hit before the deadline reports fewer seconds than were stored,
\* a fraction of a second truncated
C9_Witness ==
    /\ last.op = "get"
    /\ last.result = "Err"
    /\ contains_key(cache, last.query)
    /\ last.error.negative_ttl # Stored(last.query).error.negative_ttl
    /\ from_secs(last.error.negative_ttl[1]) < Stored(last.query).valid_until - last.now
    /\ last.error.kind = "NoRecordsFound"

\* the key the cache is to file a record under: its owner, its class, and the
\* type it covers if it is a signature, its own type otherwise
FiledUnder(record) ==
    Query(record.name,
          IF record.record_type = "RRSIG" THEN record.data.v ELSE record.record_type,
          record.dns_class)

CallRecords == {last.records_and_ttl[i][1] : i \in 1..Len(last.records_and_ttl)}

(* C10: with the dnssec feature, insert_records files every RRSIG under
   (owner, covered type, class): capacity permitting, after the call the
   entry under that key holds the RRSIG, and every entry under a key the
   call's records are not filed under, an RRSIG covering an other type
   included, is as it was *)
C10_SignaturesApart ==
    [][(last'.op = "insert_records" /\ cfg.dnssec) =>
        LET records == {last'.records_and_ttl[i][1] : i \in 1..Len(last'.records_and_ttl)}
            keys == {FiledUnder(r) : r \in records}
        IN  Cardinality(Keys(cache) \cup keys) <= cfg.capacity =>
                /\ \A r \in records :
                      r.record_type = "RRSIG" =>
                        /\ contains_key(cache', FiledUnder(r))
                        /\ \E i \in 1..Len(ValueOf(cache', FiledUnder(r)).lookup.records) :
                                ValueOf(cache', FiledUnder(r)).lookup.records[i] = r
                /\ \A k \in Keys(cache) \ keys :
                      /\ contains_key(cache', k)
                      /\ ValueOf(cache', k) = ValueOf(cache, k)]_vars

\* a call that brought only the RRSIG over NS, after one that brought the
\* RRSIG over A: both are held, each under the type it covers
C10_Witness ==
    /\ cfg.dnssec
    /\ last.op = "insert_records"
    /\ CallRecords = {Record(Apex, "RRSIG", "IN", 0, "RRSIG", "NS")}
    /\ Len(cache) = 2
    /\ cache[1].key = Query(Apex, "A", "IN")
    /\ cache[1].value.lookup.records = <<Record(Apex, "RRSIG", "IN", 5, "RRSIG", "A")>>
    /\ cache[2].key = Query(Apex, "NS", "IN")
    /\ cache[2].value.lookup.records = <<Record(Apex, "RRSIG", "IN", 0, "RRSIG", "NS")>>

---------------------------------------------------------------------------
(* Vocabulary of the properties on insert_records *)

\* the key insert_records is to file a record under when `original_query`
\* was asked: a CNAME under the type asked for, a signature (in a build with
\* the dnssec feature) under the type it covers, any other record under its
\* own type
FiledFor(original_query, record) ==
    Query(record.name,
          CASE record.record_type = "CNAME" -> original_query.query_type
            [] record.record_type = "RRSIG" /\ cfg.dnssec -> record.data.v
            [] OTHER -> record.record_type,
          record.dns_class)

\* the records the call in `call` was given, in the order given
GivenRecords(call) ==
    [i \in 1..Len(call.records_and_ttl) |-> call.records_and_ttl[i][1]]

\* the keys the call's records are to be filed under
GivenKeys(call) ==
    {FiledFor(call.query, call.records_and_ttl[i][1]) : i \in 1..Len(call.records_and_ttl)}

\* the call's records to be filed under `key`, in the order given
GivenUnder(call, key) ==
    SelectSeq(GivenRecords(call), LAMBDA r : FiledFor(call.query, r) = key)

\* the store before the call had room for all of its keys
HadRoom(store, call) == Cardinality(Keys(store) \cup GivenKeys(call)) <= cfg.capacity

(* C11: insert_records for original query (N, T) files a CNAME under (its
   owner, T, its class): capacity permitting, a get of that key at the call's
   now hits with an entry that contains the CNAME, and unless T is CNAME the
   call creates no entry under (owner, CNAME) *)
C11_CnameUnderAskedType ==
    [][last'.op = "insert_records" =>
        \A i \in 1..Len(last'.records_and_ttl) :
            LET r == last'.records_and_ttl[i][1]
                asked == Query(r.name, last'.query.query_type, r.dns_class)
                literal == Query(r.name, "CNAME", r.dns_class)
            IN  r.record_type = "CNAME" =>
                    /\ HadRoom(cache, last') =>
                            LET hit == get(cache', asked, last'.now)
                            IN  /\ hit.found /\ hit.value.result = "Ok"
                                /\ \E j \in 1..Len(hit.value.lookup.records) :
                                        hit.value.lookup.records[j].data = r.data
                                        /\ hit.value.lookup.records[j].record_type = "CNAME"
                                        /\ hit.value.lookup.records[j].name = r.name
                    /\ (last'.query.query_type # "CNAME" /\ ~contains_key(cache, literal))
                            => ~contains_key(cache', literal)]_vars

\* the alias was asked for its address and answered through its CNAME: the
\* CNAME is held under (alias, A), and nothing is held under (alias, CNAME)
C11_Witness ==
    /\ last.op = "insert_records"
    /\ last.query = Query(Alias, "A", "IN")
    /\ \E i \in 1..Len(last.records_and_ttl) :
            last.records_and_ttl[i][1].record_type = "CNAME"
    /\ contains_key(cache, Query(Alias, "A", "IN"))
    /\ \E j \in 1..Len(Stored(Query(Alias, "A", "IN")).lookup.records) :
            Stored(Query(Alias, "A", "IN")).lookup.records[j].record_type = "CNAME"
    /\ ~contains_key(cache, Query(Alias, "CNAME", "IN"))

(* C12: insert_records returns a Lookup iff one of its records is filed
   under a key equal to original_query; that Lookup has original_query as
   its query, the records filed under it in the order given, and the deadline
   of that bucket's insert, and it is the Lookup the store holds under
   original_query; whether or not a Lookup is returned, every key of the
   call is held afterwards when the call has no more keys than the capacity *)
C12_ReturnsMatchingBucket ==
    last.op = "insert_records" =>
        LET keys == GivenKeys(last)
            mine == GivenUnder(last, last.query)
        IN  /\ (last.result = "Ok") <=> (last.query \in keys)
            /\ last.result \in {"Ok", "None"}
            /\ last.result = "Ok" =>
                /\ last.lookup.query = last.query
                /\ last.lookup.records = mine
                /\ last.lookup.valid_until = last.now +
                        Clamped(MinOf({from_secs(mine[i].ttl) : i \in 1..Len(mine)}),
                                cfg.positive_min_ttl, cfg.positive_max_ttl)
                /\ contains_key(cache, last.query) => Stored(last.query).lookup = last.lookup
            /\ Cardinality(keys) <= cfg.capacity => keys \subseteq Keys(cache)

\* records were given and cached, none of them under the query asked:
\* nothing is returned
C12_Witness ==
    /\ last.op = "insert_records"
    /\ last.result = "None"
    /\ last.records_and_ttl # <<>>
    /\ GivenKeys(last) \subseteq Keys(cache)
    /\ ~contains_key(cache, last.query)

(* C13: duplicate(query, lookup, ttl, now) leaves exactly one entry under
   query: a positive one that holds the Lookup given, with deadline now + ttl
   whether or not ttl lies within [positive_min, positive_max] and whatever
   was held under query before; it returns the Lookup given, its query, records
   and valid_until as they were *)
C13_DuplicateUnclamped ==
    last.op = "duplicate" =>
        /\ Cardinality({i \in 1..Len(cache) : cache[i].key = last.query}) = 1
        /\ Stored(last.query) =
                LruValueOk(last.lookup_arg, last.now + from_secs(last.ttl_arg[1]))
        /\ last.result = "Ok"
        /\ last.lookup = last.lookup_arg

\* an alias written with ttl 0, below positive_min_ttl, over an entry the
\* key held: the alias expires at the call's now
C13_Witness ==
    /\ last.op = "duplicate"
    /\ last.ttl_arg = Some(0)
    /\ from_secs(0) < cfg.positive_min_ttl
    /\ last.replaced # None
    /\ Stored(last.query).valid_until = last.now
    /\ last.lookup_arg.valid_until # last.now

---------------------------------------------------------------------------
(* Vocabulary of the properties on capacity *)

\* the step is a call that writes under last'.query
Writes ==
    \/ last'.op \in {"insert", "duplicate"}
    \/ last'.op = "negative" /\ CarriesTtl(last'.error_arg) /\ last'.result # "Panic"

\* the keys the step removed from the store
Removed == Keys(cache) \ Keys(cache')

\* the keys of the store are distinct
DistinctKeys(c) == Cardinality(Keys(c)) = Len(c)

(* C14 as stated: at most `capacity` entries are held; a write of a new key
   into a full store stores the new entry and removes exactly one other; a
   write of a key the store holds removes nothing *)
C14_Original ==
    [][/\ Len(cache') <= cfg.capacity
       /\ (Writes /\ ~contains_key(cache, last'.query) /\ Len(cache) = cfg.capacity) =>
            /\ contains_key(cache', last'.query)
            /\ Cardinality(Removed) = 1
       /\ (Writes /\ contains_key(cache, last'.query)) => Removed = {}]_vars

(* C14: at most `capacity` entries are held, under distinct keys; with
   capacity >= 1 a write of a new key into a full store stores the new entry
   and removes exactly one other, and a write of a key the store holds
   removes nothing and stores the new entry; with capacity 0 the store stays
   empty, a write stores nothing *)
C14_AtMostCapacity ==
    [][/\ Len(cache') <= cfg.capacity
       /\ DistinctKeys(cache')
       /\ (Writes /\ cfg.capacity >= 1) =>
            /\ contains_key(cache', last'.query)
            /\ (~contains_key(cache, last'.query) /\ Len(cache) = cfg.capacity) =>
                    /\ Cardinality(Removed) = 1
                    /\ Len(cache') = cfg.capacity
            /\ (~contains_key(cache, last'.query) /\ Len(cache) < cfg.capacity) =>
                    /\ Removed = {}
                    /\ Len(cache') = Len(cache) + 1
            /\ contains_key(cache, last'.query) =>
                    /\ Removed = {}
                    /\ Len(cache') = Len(cache)
       /\ (Writes /\ cfg.capacity = 0) => cache' = <<>>]_vars

\* a write of a third key into a store that held two, its capacity: one of
\* the two is gone, the new key is held
C14_Witness ==
    /\ cfg.capacity = 2
    /\ last.op \in {"insert", "duplicate", "negative"}
    /\ last.replaced = None
    /\ Cardinality(last.evicted) = 1
    /\ Len(cache) = 2
    /\ contains_key(cache, last.query)

\* the position of key k in store c, least recently used first
Rank(c, k) == IndexOf(c, k)

\* the step touches last'.query: a write, or a get that hits
Touches == Writes \/ (last'.op = "get" /\ last'.result # "None")

(* C15: the store's order is the order of the keys' most recent touches
   (insert, duplicate, negative, a get that hits): a touch makes its key the
   most recent, and no step changes the relative order of two other keys it
   leaves in the store; a write of a new key into a full store (capacity >= 1)
   removes the key whose most recent touch is the oldest, whatever the
   deadlines of the entries are *)
C15_EvictsLeastRecent ==
    [][/\ (Touches /\ cfg.capacity >= 1) =>
            /\ contains_key(cache', last'.query)
            /\ Rank(cache', last'.query) = Len(cache')
       /\ \A a, b \in (Keys(cache) \cap Keys(cache')) \ {last'.query} :
            (Rank(cache, a) < Rank(cache, b)) <=> (Rank(cache', a) < Rank(cache', b))
       /\ (Writes /\ cfg.capacity >= 1 /\ ~contains_key(cache, last'.query)
                /\ Len(cache) = cfg.capacity) =>
            Removed = {cache[1].key}
       /\ ~Touches /\ last'.op = "get" => Removed \subseteq {last'.query}]_vars

\* an answer written into a full store of capacity 2 took the place of the
\* alias key's entry, which is long-lived, while the entry that stays was
\* already past its deadline at the call's now
C15_Witness ==
    /\ cfg.capacity = 2
    /\ last.op = "insert"
    /\ last.evicted = AliasKeys
    /\ Len(cache) = 2
    /\ cache[2].key = last.query
    /\ cache[1].value.valid_until < last.now

(* C16: get(q, now) on a stored entry with now > valid_until returns nothing
   and removes that entry; every other entry, with its outcome and deadline,
   stays, and the other entries keep their recency order *)
C16_ExpiredRemoved ==
    [][(/\ last'.op = "get"
        /\ contains_key(cache, last'.query)
        /\ last'.now > Stored(last'.query).valid_until) =>
            /\ last'.result = "None"
            /\ cache' = SelectSeq(cache, LAMBDA e : e.key # last'.query)]_vars

\* a get past the deadline of one of three entries: the other two are left
C16_Witness ==
    /\ last.op = "get"
    /\ last.out_of_date
    /\ last.evicted = {last.query}
    /\ Len(cache) = 2

---------------------------------------------------------------------------
(* Vocabulary of the properties on the bounds *)

\* the TTL the entry under the key written by the step was stored with
StoredTtl == ValueOf(cache', last'.query).valid_until - last'.now

\* every entry the step did not write is as it was, if it is still held
OthersKept ==
    \A k \in (Keys(cache) \cap Keys(cache')) :
        (~Writes \/ k # last'.query) => ValueOf(cache', k) = ValueOf(cache, k)

(* C17 as stated: every entry is stored with valid_until = the call's now +
   a TTL within [positive_min, positive_max] if it is positive, within
   [negative_min, negative_max] if it is negative, and keeps that deadline
   while it is held *)
C17_Original ==
    [][/\ (Writes /\ contains_key(cache', last'.query)) =>
            IF ValueOf(cache', last'.query).result = "Ok"
            THEN cfg.positive_min_ttl <= StoredTtl /\ StoredTtl <= cfg.positive_max_ttl
            ELSE cfg.negative_min_ttl <= StoredTtl /\ StoredTtl <= cfg.negative_max_ttl
       /\ OthersKept]_vars

(* C17: an entry keeps the deadline it was stored with while it is held.
   insert stores with valid_until = now + a TTL that lies within
   [positive_min, positive_max] when positive_min <= positive_max and is
   positive_min otherwise; negative stores with valid_until = now + a TTL
   within [negative_min, negative_max], and stores nothing when negative_min
   > negative_max; duplicate stores with valid_until = now + the ttl given,
   which no bound applies to *)
C17_DeadlineWithinBounds ==
    [][/\ (Writes /\ contains_key(cache', last'.query)) =>
            CASE last'.op = "insert" ->
                    IF cfg.positive_min_ttl <= cfg.positive_max_ttl
                    THEN cfg.positive_min_ttl <= StoredTtl
                            /\ StoredTtl <= cfg.positive_max_ttl
                    ELSE StoredTtl = cfg.positive_min_ttl
              [] last'.op = "negative" ->
                    /\ cfg.negative_min_ttl <= StoredTtl
                    /\ StoredTtl <= cfg.negative_max_ttl
              [] last'.op = "duplicate" -> StoredTtl = from_secs(last'.ttl_arg[1])
       /\ (last'.op = "negative" /\ cfg.negative_min_ttl > cfg.negative_max_ttl) =>
            cache' = cache
       /\ OthersKept]_vars

\* an alias held with a TTL above positive_max, under bounds in order
C17_Witness ==
    /\ last.op = "duplicate"
    /\ cfg.positive_min_ttl <= cfg.positive_max_ttl
    /\ contains_key(cache, last.query)
    /\ Stored(last.query).valid_until - last.now > cfg.positive_max_ttl

(* C18 as stated: no call of insert, duplicate, negative, get or clear ends
   in a failure, whatever the bounds *)
C18_NoFailure == last.result # "Panic"

---------------------------------------------------------------------------
(* Vocabulary of the properties on shared handles *)

\* the step is a store call made by handle h
StoreStepBy(h) ==
    /\ procs[h].pc \in {"locked", "remove"}
    /\ procs'[h].pc # procs[h].pc

\* handle h is between two store calls of the call it is in
BetweenStoreCalls(h) ==
    /\ procs[h].pc # "idle"
    /\ procs[h].done > 0
    /\ procs[h].pc = "remove" \/ procs[h].pending # <<>>

\* handle h holds the guard
Guarded(h) == procs[h].pc \in {"locked", "remove", "unlock"}

(* C19 as stated: while a call is between two of its store calls, no other
   handle makes a store call: the bucket writes of one insert_records and the
   get_mut and remove of one get are each one atomic step *)
C19_Original ==
    [][\A h, g \in Handles :
        (h # g /\ BetweenStoreCalls(h)) => ~StoreStepBy(g)]_vars

(* C19: every store call is made under the lock, by the one handle that
   holds it, and the store changes in no other step; insert, clear and get
   take the lock once: get holds it from get_mut through the remove of an
   entry out of date, so no other handle acts between the two; insert_records
   takes and releases the lock once per bucket, and between two bucket
   writes other handles can make store calls *)
C19_LockPerStoreCall ==
    [][/\ \A h \in Handles : Guarded(h) <=> mutex = Some(h)
       /\ \A h \in Handles : StoreStepBy(h) => mutex = Some(h)
       /\ cache' # cache => \E h \in Handles : StoreStepBy(h)
       /\ \A h, g \in Handles :
            (h # g /\ BetweenStoreCalls(h) /\ procs[h].op # "insert_records")
                => ~StoreStepBy(g)
       /\ \A h \in Handles :
            /\ procs[h].op \in {"insert", "clear"} => procs[h].done <= 1
            /\ (procs[h].op = "get" /\ procs[h].done > 0) => Guarded(h) \/ procs[h].pc = "idle"
            /\ BetweenStoreCalls(h) /\ procs[h].op = "insert_records" /\ procs[h].pc = "lock"
                => mutex # Some(h)]_vars

\* a handle has made a store call and holds the lock while the other is
\* between the two bucket writes of its insert_records
C19_Witness ==
    \E h, g \in Handles :
        /\ h # g
        /\ procs[h].op = "insert_records"
        /\ procs[h].done = 1
        /\ procs[h].pending # <<>>
        /\ procs[g].pc = "unlock"
        /\ procs[g].done = 1
        /\ mutex = Some(g)

(* C20: the handles act on one store.  Every store call has, on the store as
   the calls before it left it, the effect of the operation made through a
   single handle: a bucket's insert that of insert, get's get_mut and remove
   together that of get, with get's result decided by the entry the store
   holds, whichever handle wrote it; an insert of a key into a store with room
   for it leaves every other entry in place *)
C20_OneSharedStore ==
    [][\A h \in Handles :
        StoreStepBy(h) =>
            LET p == procs[h]
            IN  CASE p.op \in {"insert", "insert_records"} ->
                        LET key == Head(p.pending)[1]
                        IN  /\ cache' = insert(cache, cfg, key, Head(p.pending)[2], p.now).store
                            /\ contains_key(cache', key)
                            /\ (Len(cache) < cfg.capacity \/ contains_key(cache, key)) =>
                                    \A k \in Keys(cache) \ {key} :
                                        /\ contains_key(cache', k)
                                        /\ ValueOf(cache', k) = ValueOf(cache, k)
                  [] p.op = "get" /\ p.pc = "locked" ->
                        LET r == get(cache, p.query, p.now)
                        IN  /\ procs'[h].result = (IF r.found THEN r.value.result ELSE "None")
                            /\ (procs'[h].result # "None") <=>
                                    /\ contains_key(cache, p.query)
                                    /\ p.now <= ValueOf(cache, p.query).valid_until
                            /\ ~r.out_of_date => cache' = r.store
                            /\ r.out_of_date <=> procs'[h].pc = "remove"
                  [] p.op = "get" /\ p.pc = "remove" ->
                        /\ cache' = get(cache, p.query, p.now).store
                        /\ ~contains_key(cache', p.query)
                  [] p.op = "clear" -> cache' = <<>>]_vars

\* a handle that never wrote returned from a get with a hit, while the other
\* handle is between the two bucket writes of its insert_records
C20_Witness ==
    \E h, g \in Handles :
        /\ h # g
        /\ ~procs[g].wrote
        /\ procs[g].op = "get" /\ procs[g].pc = "idle" /\ procs[g].result = "Ok"
        /\ procs[h].op = "insert_records"
        /\ procs[h].done = 1
        /\ procs[h].pc = "lock"

---------------------------------------------------------------------------
(* C21: DnsLru::new uses 0 seconds for an unset positive_min_ttl or
   negative_min_ttl, 86400 seconds for an unset positive_max_ttl or
   negative_max_ttl, a bound that is set as given, and the capacity as given;
   no call of insert, negative, duplicate, get or clear changes the four
   bounds or the capacity *)
C21_BoundsFixed ==
    /\ last.op = "new" =>
            /\ cfg.capacity = last.capacity
            /\ cfg.positive_min_ttl =
                    (IF last.ttl_cfg.positive_min_ttl = None THEN 0
                     ELSE last.ttl_cfg.positive_min_ttl[1])
            /\ cfg.negative_min_ttl =
                    (IF last.ttl_cfg.negative_min_ttl = None THEN 0
                     ELSE last.ttl_cfg.negative_min_ttl[1])
            /\ cfg.positive_max_ttl =
                    (IF last.ttl_cfg.positive_max_ttl = None THEN 86400 * TicksPerSec
                     ELSE last.ttl_cfg.positive_max_ttl[1])
            /\ cfg.negative_max_ttl =
                    (IF last.ttl_cfg.negative_max_ttl = None THEN 86400 * TicksPerSec
                     ELSE last.ttl_cfg.negative_max_ttl[1])
    /\ [][/\ cfg'.capacity = cfg.capacity
          /\ cfg'.positive_min_ttl = cfg.positive_min_ttl
          /\ cfg'.negative_min_ttl = cfg.negative_min_ttl
          /\ cfg'.positive_max_ttl = cfg.positive_max_ttl
          /\ cfg'.negative_max_ttl = cfg.negative_max_ttl]_vars

\* a cache built with positive_max_ttl unset and negative_min_ttl set has
\* taken a write and an expiry: the one bound is the default, the other the
\* one given
C21_Witness ==
    /\ last.op = "get"
    /\ last.out_of_date
    /\ cache # <<>>
    /\ cfg.positive_max_ttl = from_secs(MAX_TTL)
    /\ cfg.negative_min_ttl = from_secs(2)
    /\ cfg.capacity = 2

---------------------------------------------------------------------------
\* a positive entry without records is held under `query`
HoldsEmpty(query) ==
    /\ contains_key(cache, query)
    /\ Stored(query).result = "Ok"
    /\ Stored(query).lookup.records = <<>>

(* C22: insert(query, [], now) returns a Lookup with zero records and the
   deadline now + max(positive_min, positive_max), and stores under query an
   entry with zero records and that deadline; a get at or before the deadline
   of an entry with zero records is a hit with zero records, not a miss *)
C22_EmptyInsert ==
    /\ (last.op = "insert" /\ last.records_and_ttl = <<>>) =>
            LET deadline == last.now +
                    (IF cfg.positive_min_ttl <= cfg.positive_max_ttl
                     THEN cfg.positive_max_ttl ELSE cfg.positive_min_ttl)
            IN  /\ last.result = "Ok"
                /\ last.lookup.query = last.query
                /\ last.lookup.records = <<>>
                /\ last.lookup.valid_until = deadline
                /\ HoldsEmpty(last.query)
                /\ Stored(last.query).valid_until = deadline
                /\ Stored(last.query).lookup = last.lookup
    /\ \A query \in Keys(cache), now \in Instants :
            (HoldsEmpty(query) /\ now <= Stored(query).valid_until) =>
                LET hit == get(cache, query, now)
                IN  /\ hit.found
                    /\ hit.value.result = "Ok"
                    /\ hit.value.lookup.records = <<>>
                    /\ hit.value.lookup.valid_until = Stored(query).valid_until
    /\ (last.op = "get" /\ HoldsEmpty(last.query)
            /\ last.now <= Stored(last.query).valid_until) =>
                /\ last.result = "Ok"
                /\ last.lookup.records = <<>>

\* a get, later than the insert, hit the entry an empty insert stored under
\* a floor above the ceiling: it is held until now + positive_min
C22_Witness ==
    /\ last.op = "get"
    /\ last.result = "Ok"
    /\ last.lookup.records = <<>>
    /\ last.now = MaxNow
    /\ HoldsEmpty(last.query)
    /\ cfg.positive_min_ttl > cfg.positive_max_ttl
    /\ Stored(last.query).valid_until < MaxNow + cfg.positive_min_ttl
    /\ Stored(last.query).valid_until >= cfg.positive_min_ttl

---------------------------------------------------------------------------
\* Lookup `got` is Lookup `held` but for the TTL fields of the records and
\* the deadline
SameButTtls(got, held) ==
    /\ got.query = held.query
    /\ Len(got.records) = Len(held.records)
    /\ \A i \in 1..Len(held.records) :
            /\ got.records[i].name = held.records[i].name
            /\ got.records[i].record_type = held.records[i].record_type
            /\ got.records[i].dns_class = held.records[i].dns_class
            /\ got.records[i].data = held.records[i].data

(* C23 as stated: a get that hits a positive entry returns the stored Lookup
   with its query, its records in order, each with its name, type, class and
   data, and with the valid_until of the stored Lookup, entries stored by
   duplicate included *)
C23_Original ==
    [][(last'.op = "get" /\ last'.result = "Ok") =>
        LET held == ValueOf(cache, last'.query)
        IN  /\ held.result = "Ok"
            /\ SameButTtls(last'.lookup, held.lookup)
            /\ last'.lookup.valid_until = held.lookup.valid_until]_vars

(* C23: a get that hits a positive entry returns the stored Lookup with its
   query, its records in order, each with its name, type, class and data; the
   valid_until of the Lookup returned is the deadline of the entry, which is
   the stored Lookup's own valid_until for an entry stored by insert, and now
   + ttl of the duplicate call for an entry stored by duplicate, whatever the
   valid_until of the Lookup duplicated *)
C23_HitKeepsIdentity ==
    [][(last'.op = "get" /\ last'.result = "Ok") =>
        LET held == ValueOf(cache, last'.query)
        IN  /\ held.result = "Ok"
            /\ SameButTtls(last'.lookup, held.lookup)
            /\ last'.lookup.valid_until = held.valid_until
            /\ \A i \in 1..Len(last'.lookup.records) :
                    last'.lookup.records[i].ttl =
                        ((held.valid_until - last'.now) \div TicksPerSec) % U32Modulus]_vars

\* a hit on an alias whose entry ends before the Lookup duplicated under it:
\* the Lookup returned ends with the entry
C23_Witness ==
    /\ last.op = "get"
    /\ last.result = "Ok"
    /\ contains_key(cache, last.query)
    /\ Stored(last.query).lookup.query # last.query
    /\ Stored(last.query).valid_until < Stored(last.query).lookup.valid_until
    /\ last.lookup.valid_until = Stored(last.query).valid_until
    /\ last.lookup.records # <<>>
    /\ last.lookup.records[1].ttl # Stored(last.query).lookup.records[1].ttl

---------------------------------------------------------------------------
(* C24: a get that hits leaves every entry as it is, the one it hit included
   (its valid_until, its records with the TTLs they were stored with, or its
   error with the negative_ttl it was stored with), and only makes the key it
   hit the most recently used; no step changes the value under a key it
   leaves in the store unless it is a write to that key; a get made again
   for the same key at the same now returns what the first returned *)
C24_HitLeavesEntry ==
    [][/\ (last'.op = "get" /\ last'.result # "None") =>
            /\ contains_key(cache, last'.query)
            /\ cache' = Append(SelectSeq(cache, LAMBDA e : e.key # last'.query),
                               cache[IndexOf(cache, last'.query)])
       /\ OthersKept
       /\ last'.op = "get" =>
            LET again == get(cache', last'.query, last'.now)
            IN  /\ again.found <=> last'.result # "None"
                /\ again.found =>
                        /\ again.value.result = last'.result
                        /\ again.value.lookup = last'.lookup
                        /\ again.value.error = last'.error]_vars

\* a hit on a negative entry, not the only one held, after its first second:
\* the error goes out with less than the negative_ttl the entry keeps
C24_Witness ==
    /\ last.op = "get"
    /\ last.result = "Err"
    /\ Len(cache) = 2
    /\ cache[2].key = last.query
    /\ last.error.negative_ttl # None
    /\ Stored(last.query).error.negative_ttl # None
    /\ last.error.negative_ttl[1] < Stored(last.query).error.negative_ttl[1]
    /\ last.error.negative_ttl[1] < as_secs(Stored(last.query).valid_until)

---------------------------------------------------------------------------
\* the pairs <<alias, target>> of store c: the alias key holds the Lookup of
\* the target key, which holds it too
AliasPairs(c) ==
    {p \in Keys(c) \X Keys(c) :
        /\ p[1] # p[2]
        /\ ValueOf(c, p[1]).result = "Ok"
        /\ ValueOf(c, p[1]).lookup.query = p[2]
        /\ ValueOf(c, p[2]).result = "Ok"
        /\ ValueOf(c, p[2]).lookup = ValueOf(c, p[1]).lookup}

(* C25: while an alias key and a target key hold the same Lookup, the two
   entries are independent.  A get of either hits up to the deadline of that
   entry, whatever the deadline of the other; a step other than clear removes
   one of them only by its own expiry (a get of that key past its deadline)
   or by evicting it as the least recently used key, and never both; the one
   that the step neither writes nor removes keeps its outcome and deadline *)
C25_AliasIndependent ==
    [][last'.op # "clear" =>
        \A p \in AliasPairs(cache) :
            /\ \E k \in {p[1], p[2]} : contains_key(cache', k)
            /\ \A k \in {p[1], p[2]} :
                /\ (last'.op = "get" /\ last'.query = k) =>
                        (last'.result = "Ok" <=> last'.now <= ValueOf(cache, k).valid_until)
                /\ ~contains_key(cache', k) =>
                        \/ /\ last'.op = "get"
                           /\ last'.query = k
                           /\ last'.now > ValueOf(cache, k).valid_until
                        \/ /\ Writes
                           /\ ~contains_key(cache, last'.query)
                           /\ Len(cache) = cfg.capacity
                           /\ cache[1].key = k
                /\ (contains_key(cache', k) /\ ~(Writes /\ last'.query = k)) =>
                        ValueOf(cache', k) = ValueOf(cache, k)]_vars

\* the alias was removed at its deadline by a get, the target it was
\* duplicated from is held and has time left
C25_Witness ==
    /\ last.op = "get"
    /\ last.out_of_date
    /\ last.query \in AliasKeys
    /\ last.evicted = AliasKeys
    /\ \E k \in Keys(cache) :
            /\ Stored(k).result = "Ok"
            /\ Stored(k).lookup.query = k
            /\ last.now < Stored(k).valid_until

---------------------------------------------------------------------------
\* handle h is in a call
InCall(h) == procs[h].pc # "idle"

(* C26: under a fair scheduler every call a handle started returns; the lock
   is free when no call is in progress; a handle that goes for the lock does
   not hold it; and a call waits for nothing but the lock: past the lock it
   always has a step it can take, and at the lock it can go on as soon as
   the lock is free *)
C26_EveryCallReturns ==
    /\ [](/\ (\A h \in Handles : ~InCall(h)) => mutex = None
          /\ \A h \in Handles :
                /\ procs[h].pc = "lock" => mutex # Some(h)
                /\ (procs[h].pc = "lock" /\ mutex = None) => ENABLED Lock(h)
                /\ (InCall(h) /\ procs[h].pc # "lock") => ENABLED StepOf(h))
    /\ \A h \in Handles : InCall(h) ~> ~InCall(h)

\* both handles are in a call: one holds the lock between get_mut and remove,
\* the other waits for the lock with the second bucket of its insert_records
C26_Witness ==
    \E h, g \in Handles :
        /\ procs[h].op = "get" /\ procs[h].pc = "remove"
        /\ mutex = Some(h)
        /\ procs[g].op = "insert_records" /\ procs[g].pc = "lock"
        /\ procs[g].done = 1

---------------------------------------------------------------------------
\* the places <<key, index>> of the records held by the positive entries
\* under the keys in `keys`
HeldUnder(keys) ==
    {p \in (keys \cap Keys(cache)) \X (1..MaxBatch) :
        /\ Stored(p[1]).result = "Ok"
        /\ p[2] <= Len(Stored(p[1]).lookup.records)}

(* C27: insert_records files every record it is given under exactly one key,
   (owner, effective type, class), none dropped and none filed twice.  When
   the call has no more keys than the capacity, each key holds afterwards one
   positive entry with exactly the records filed under it, in the order
   given (a CNAME with the records of the type asked at its name, an RRSIG
   with the records it covers), with deadline now + the minimum of those
   records' TTLs clamped into [positive_min, positive_max] *)
C27_OneBucketEach ==
    (last.op = "insert_records" /\ Cardinality(GivenKeys(last)) <= cfg.capacity) =>
        LET keys == GivenKeys(last)
            given == GivenRecords(last)
        IN  /\ keys \subseteq Keys(cache)
            /\ \A k \in keys :
                    LET mine == GivenUnder(last, k)
                    IN  /\ Stored(k).result = "Ok"
                        /\ Stored(k).lookup.query = k
                        /\ Stored(k).lookup.records = mine
                        /\ Stored(k).valid_until = last.now +
                                Clamped(MinOf({from_secs(mine[i].ttl) : i \in 1..Len(mine)}),
                                        cfg.positive_min_ttl, cfg.positive_max_ttl)
                        /\ Stored(k).lookup.valid_until = Stored(k).valid_until
            /\ \A i \in 1..Len(given) :
                    Cardinality({p \in HeldUnder(keys) :
                        Stored(p[1]).lookup.records[p[2]] = given[i]}) = 1
            /\ Cardinality(HeldUnder(keys)) = Len(given)

\* a CNAME and the signature over A, asked for A in a build with dnssec: one
\* entry holds both, until the signature's TTL runs out
C27_Witness ==
    /\ last.op = "insert_records"
    /\ cfg.dnssec
    /\ last.query = Query(Alias, "A", "IN")
    /\ GivenKeys(last) = {last.query}
    /\ Len(last.records_and_ttl) = 2
    /\ contains_key(cache, last.query)
    /\ Len(Stored(last.query).lookup.records) = 2
    /\ Stored(last.query).lookup.records[1].record_type = "CNAME"
    /\ Stored(last.query).lookup.records[2].record_type = "RRSIG"
    /\ Stored(last.query).valid_until = last.now + from_secs(2)

---------------------------------------------------------------------------
\* the records `got` are the records `given`, in order, but for their TTL
\* fields, which all are `secs`
RebasedTo(got, given, secs) ==
    /\ Len(got) = Len(given)
    /\ \A i \in 1..Len(given) :
            /\ got[i].name = given[i].name
            /\ got[i].record_type = given[i].record_type
            /\ got[i].dns_class = given[i].dns_class
            /\ got[i].data = given[i].data
            /\ got[i].ttl = secs

\* the whole seconds the bucket under `key` of the call in `call` is held for
BucketSecs(call, key) ==
    LET mine == GivenUnder(call, key)
    IN  Clamped(MinOf({from_secs(mine[i].ttl) : i \in 1..Len(mine)}),
                cfg.positive_min_ttl, cfg.positive_max_ttl) \div TicksPerSec

(* C28 as stated: after insert_records on a cache with room for all of its
   keys, a get of each key at the same now hits with exactly the records
   filed under the key, and a get of original_query hits with the records of
   the Lookup returned, if one was *)
C28_Original ==
    (last.op = "insert_records" /\ Cardinality(GivenKeys(last)) <= cfg.capacity) =>
        /\ \A k \in GivenKeys(last) :
                LET hit == get(cache, k, last.now)
                IN  /\ hit.found /\ hit.value.result = "Ok"
                    /\ hit.value.lookup.records = GivenUnder(last, k)
        /\ last.result = "Ok" =>
                LET hit == get(cache, last.query, last.now)
                IN  /\ hit.found /\ hit.value.result = "Ok"
                    /\ hit.value.lookup.records = last.lookup.records

(* C28: after insert_records on a cache with room for all of its keys,
   whatever the order the buckets were inserted in, a get of each key at the
   same now hits with the records filed under the key, in the order given
   and with their name, type, class and data, each with the TTL field set to
   the whole seconds the bucket is held for (the clamped minimum TTL of the
   bucket) in place of its own; if the call returned a Lookup, a get of
   original_query hits with the records of that Lookup, their TTL fields
   rewritten likewise *)
C28_GetAfterInsertRecords ==
    (last.op = "insert_records" /\ Cardinality(GivenKeys(last)) <= cfg.capacity) =>
        /\ \A k \in GivenKeys(last) :
                LET hit == get(cache, k, last.now)
                IN  /\ hit.found /\ hit.value.result = "Ok"
                    /\ hit.value.lookup.query = k
                    /\ RebasedTo(hit.value.lookup.records, GivenUnder(last, k),
                                 BucketSecs(last, k))
        /\ last.result = "Ok" =>
                LET hit == get(cache, last.query, last.now)
                IN  /\ hit.found /\ hit.value.result = "Ok"
                    /\ RebasedTo(hit.value.lookup.records, last.lookup.records,
                                 BucketSecs(last, last.query))
                    /\ hit.value.lookup.valid_until = last.lookup.valid_until

\* asked for the CNAME, a response with the CNAME and an address filled two
\* buckets and returned the Lookup of the first; a get of the other key gives
\* the address with a TTL of one second, not the 0 it came with
C28_Witness ==
    /\ last.op = "insert_records"
    /\ last.result = "Ok"
    /\ last.query = Query(Alias, "CNAME", "IN")
    /\ GivenKeys(last) = AliasQueries
    /\ LET hit == get(cache, Query(Alias, "A", "IN"), last.now)
       IN  /\ hit.found
           /\ Len(hit.value.lookup.records) = 1
           /\ hit.value.lookup.records[1].ttl = 1
           /\ GivenUnder(last, Query(Alias, "A", "IN"))[1].ttl = 0

---------------------------------------------------------------------------
(* C29: with positive_min_ttl above positive_max_ttl, insert stores the entry
   with, and returns a Lookup with, the deadline now + positive_min_ttl,
   whatever the TTLs of the records and however many records there are *)
C29_FloorWins ==
    (last.op = "insert" /\ cfg.positive_min_ttl > cfg.positive_max_ttl) =>
        /\ last.lookup.valid_until = last.now + cfg.positive_min_ttl
        /\ contains_key(cache, last.query)
        /\ Stored(last.query).valid_until = last.now + cfg.positive_min_ttl

\* records with a TTL between the ceiling and the floor and a TTL above the
\* floor: held for positive_min_ttl
C29_Witness ==
    /\ last.op = "insert"
    /\ cfg.positive_min_ttl > cfg.positive_max_ttl
    /\ PairTtls(last.records_and_ttl) = {from_secs(2), from_secs(5)}
    /\ from_secs(2) > cfg.positive_max_ttl
    /\ from_secs(5) > cfg.positive_min_ttl
    /\ contains_key(cache, last.query)
    /\ Stored(last.query).valid_until = last.now + cfg.positive_min_ttl

---------------------------------------------------------------------------
\* the whole seconds from the latest call's now to the deadline of the entry
\* under its key
SecsLeft == (Stored(last.query).valid_until - last.now) \div TicksPerSec

(* C30: a TTL handed to a caller as a 32-bit number of seconds never exceeds
   the whole seconds left to the deadline of the entry: the TTL of every
   record of a positive hit is those seconds modulo the range of u32; the
   negative_ttl returned by negative() and by a negative hit is those
   seconds, and 86400 when they do not fit the range of u32 *)
C30_ReportedWithinRemaining ==
    /\ (last.op = "get" /\ last.result = "Ok") =>
            \A i \in 1..Len(last.lookup.records) :
                /\ last.lookup.records[i].ttl <= SecsLeft
                /\ last.lookup.records[i].ttl = SecsLeft % U32Modulus
    /\ (/\ last.op \in {"get", "negative"}
        /\ last.result = "Err"
        /\ last.error.negative_ttl # None
        /\ last.op = "negative" => CarriesTtl(last.error_arg)) =>
            /\ contains_key(cache, last.query)
            /\ last.error.negative_ttl[1] <= SecsLeft
            /\ last.error.negative_ttl[1] < U32Modulus
            /\ last.error.negative_ttl[1] =
                    (IF SecsLeft < U32Modulus THEN SecsLeft ELSE 86400)

\* a negative hit one tick before the last whole second under a floor beyond
\* the range of u32: 86400 is reported, far less than is left
C30_Witness ==
    /\ last.op = "get"
    /\ last.result = "Err"
    /\ last.error.negative_ttl = Some(86400)
    /\ SecsLeft >= U32Modulus
    /\ (Stored(last.query).valid_until - last.now) % TicksPerSec # 0

=============================================================================
